---- MODULE Spec2Model ----
(***************************************************************************)
(* A model of the aio-routes resolution and dispatch engine                *)
(* (src/aioroutes/core.py, exceptions.py, http.py, static.py).             *)
(*                                                                         *)
(* One request at a time is dispatched by Site.dispatch over a fixed       *)
(* resource tree built from the fixtures of test_routing.py and the        *)
(* StaticResource of static.py.  Text values are strings; a uri path is a  *)
(* sequence of tokens, each the slash "/" or a maximal run of non-slash    *)
(* characters; a dict is a set of <<key, value>> pairs.                    *)
(***************************************************************************)
EXTENDS Integers, Sequences, FiniteSets, TLC

VARIABLES
    phase,      \* where Site.dispatch stands (see Phases)
    request,    \* the request object: uri, method, cached properties
    rootIdx,    \* index into Site.resources of the root being attempted
    resolver,   \* the live resolver: kind, args, kwargs, resource
    pending,    \* resolver hand-over in progress: the class to construct
    exc,        \* the exception in flight
    result,     \* what _safe_dispatch returned
    response,   \* what dispatch returned
    trace,      \* hooks, binds and bodies run by the current _resolve call
    restarts,   \* InternalRedirect restarts of this dispatch (saturating)
    attempts,   \* how the root attempts of the current _resolve call ended
    choice,     \* how the body of Root.act behaved in this _resolve call
    orig,       \* the request as it arrived
    before,     \* the resolver as the pass of resolve just made found it
    passEv,     \* hooks, binds and bodies run by the pass just made
    input,      \* the arguments of a function called on its own
    output      \* what that call came to

\* the state of a dispatch of the site
site == <<phase, request, rootIdx, resolver, pending, exc, result, response,
          trace, restarts, attempts, choice, orig, before, passEv>>

vars == <<site, input, output>>

-----------------------------------------------------------------------------
(* Bounds of the model *)

\* longest request path, in segments
MaxPathLen == 3

\* the restart counter stops counting here (the code has no counter at all)
MaxRestartsCounted == 3

\* longest request path, in segments, where only short paths are asked for
MaxShortPathLen == 1

\* most slashes put before and after a request path
MaxSlashes == 2

\* longest request path, in segments, that slashes are put around
MaxSlashedPathLen == 2

\* most positional inputs a handler is bound to
MaxArgs == 2

\* most keyword inputs a handler is bound to
MaxKw == 2

\* most post-hooks registered on a resource method
MaxPostHooks == 2

\* most calls of supersede on one sticker class
MaxSupersedes == 3

\* most pre-hooks registered on a page
MaxPreHooks == 3

\* most segments of a path traversed pass by pass
MaxTraverseLen == 3

\* most path segments after the name of a resource method
MaxRestLen == 2

-----------------------------------------------------------------------------
(* Small helpers *)

Min(a, b) == IF a < b THEN a ELSE b

\* s without its first n items
Drop(s, n) == IF n >= Len(s) THEN <<>> ELSE SubSeq(s, n + 1, Len(s))

SeqsUpTo(S, n) == UNION {[1..k -> S] : k \in 0..n}

\* dict operations; a dict is a set of <<key, value>> pairs with unique keys
Has(d, k) == \E p \in d : p[1] = k

Get(d, k) == (CHOOSE p \in d : p[1] = k)[2]

\* dict.update
Update(d, e) == {p \in d : ~Has(e, p[1])} \cup e

-----------------------------------------------------------------------------
(* Requests: BaseHTTPRequest and its cached properties *)

Slash == "/"

\* the path segments requests are built from: child names of the fixtures, a
\* number and names that are children of some resources and not of others
Segments == {"about", "forum", "forums", "one", "star", "hello", "act",
             "topic", "new_topic", "10"}

\* query strings, already decoded into key/value pairs
Queries == { {}, {<<"id", "10">>}, {<<"k", "v">>} }

Methods == {"get", "PUT", "FIX"}

NoUri == [path |-> <<>>, query |-> {}]

\* "/a/b" for <<"a", "b">>, with a trailing slash when asked for
RECURSIVE RenderPath(_)
RenderPath(segs) ==
    IF segs = <<>> THEN <<>>
    ELSE <<Slash, Head(segs)>> \o RenderPath(Tail(segs))

\* n slashes
Slashes(n) == [i \in 1..n |-> Slash]

\* "a/b" for <<"a", "b">>
Join(segs) == IF segs = <<>> THEN <<>> ELSE Tail(RenderPath(segs))

\* the uri of segs with lead slashes before and trail slashes after it
SlashedUri(segs, lead, trail, query) ==
    [path |-> Slashes(lead) \o Join(segs) \o Slashes(trail), query |-> query]

MakeUri(segs, trailing, query) ==
    [path  |-> IF trailing \/ segs = <<>> THEN RenderPath(segs) \o <<Slash>>
               ELSE RenderPath(segs),
     query |-> query]

\* what is left of toks once the piece before the first slash is taken
RECURSIVE AfterNetloc(_)
AfterNetloc(toks) ==
    IF toks = <<>> \/ Head(toks) = Slash THEN toks
    ELSE AfterNetloc(Tail(toks))

\* urllib.parse.urlparse: the part before "?" and the part after it; of a
\* uri that begins with "//" the piece up to the next slash is the netloc and
\* only what follows it is the path
urlparse(uri) ==
    IF Len(uri.path) >= 2 /\ uri.path[1] = Slash /\ uri.path[2] = Slash
    THEN [path  |-> AfterNetloc(SubSeq(uri.path, 3, Len(uri.path))),
          query |-> uri.query]
    ELSE [path |-> uri.path, query |-> uri.query]

\* dict(parse_qsl(query))
parse_qsl(query) == query

NewRequestObject(uri, method) ==
    [uri |-> uri, method |-> method,
     has_parsed_uri |-> FALSE, parsed_uri |-> NoUri,
     has_form_arguments |-> FALSE, form_arguments |-> {}]

\* cached_property: the first read computes the value and stores it in the
\* instance; later reads return the stored value
ReadParsedUri(req) ==
    IF req.has_parsed_uri THEN req
    ELSE [req EXCEPT !.has_parsed_uri = TRUE, !.parsed_uri = urlparse(req.uri)]

ReadFormArguments(req) ==
    IF req.has_form_arguments THEN req
    ELSE LET r1 == ReadParsedUri(req)
         IN [r1 EXCEPT !.has_form_arguments = TRUE,
                       !.form_arguments = parse_qsl(r1.parsed_uri.query)]

\* str.strip('/')
RECURSIVE LStrip(_)
LStrip(toks) ==
    IF toks # <<>> /\ Head(toks) = Slash THEN LStrip(Tail(toks)) ELSE toks

RECURSIVE RStrip(_)
RStrip(toks) ==
    IF toks # <<>> /\ toks[Len(toks)] = Slash
    THEN RStrip(SubSeq(toks, 1, Len(toks) - 1)) ELSE toks

Strip(toks) == RStrip(LStrip(toks))

\* str.split('/') of a non-empty text: cur is the piece being read
RECURSIVE SplitFrom(_, _)
SplitFrom(toks, cur) ==
    IF toks = <<>> THEN <<cur>>
    ELSE IF Head(toks) = Slash THEN <<cur>> \o SplitFrom(Tail(toks), "")
    ELSE SplitFrom(Tail(toks), Head(toks))

\* PathResolver.__init__: path.strip('/').split('/'), or [] for an empty path
get_path(path) ==
    LET stripped == Strip(path)
    IN IF stripped = <<>> THEN <<>> ELSE SplitFrom(stripped, "")

-----------------------------------------------------------------------------
(* Exceptions *)

Exc(type, location) == [type |-> type, location |-> location]

NoExc == Exc("", NoUri)

WebExceptions ==
    {"Forbidden", "InternalError", "NotFound", "MethodNotAllowed",
     "CompletionRedirect"}

InternalRedirects == {"PathRewrite"}

\* an item of a response: how it is encoded, its text when it is a literal of
\* the code, and the handler's value when it is made from one
Item(enc, text, val) == [enc |-> enc, text |-> text, val |-> val]

Literal(enc, text) ==
    Item(enc, text, [ty |-> "NoneType", h |-> "", self |-> [cls |-> "", id |-> ""],
                     a |-> <<>>, k |-> {}, post |-> <<>>])

Forbidden_default_response ==
    << Literal("bytes", <<"403 Forbidden">>),
       Literal("bytes", <<"Content-Type", "text/html">>),
       Literal("bytes", <<"<h1>403 Forbidden</h1>">>) >>

InternalError_default_response ==
    << Literal("bytes", <<"500 Internal Server Error">>),
       Literal("bytes", <<"Content-Type", "text/html">>),
       Literal("bytes", <<"<h1>500 Internal Server Error</h1>">>) >>

NotFound_default_response ==
    << Literal("bytes", <<"404 Not Found">>),
       Literal("bytes", <<"Content-Type", "text/html">>),
       Literal("bytes", <<"<h1>404 Page Not Found</h1>">>) >>

MethodNotAllowed_default_response ==
    << Literal("bytes", <<"405 Method Not Allowed">>),
       Literal("bytes", <<"Content-Type", "text/html">>),
       Literal("bytes", <<"<h1>405 Method Not Allowed</h1>">>) >>

\* Redirect.default_response of a CompletionRedirect without a cookie
Redirect_default_response(e) ==
    << Literal("str", <<"303 See Other">>),
       Literal("bytes", <<"Content-Type", "text/html", "Location">>
                            \o e.location.path),
       Literal("str", <<"<h1>303 See Other</h1>", "Follow">>
                            \o e.location.path) >>

default_response(e) ==
    CASE e.type = "Forbidden"          -> Forbidden_default_response
      [] e.type = "InternalError"      -> InternalError_default_response
      [] e.type = "NotFound"           -> NotFound_default_response
      [] e.type = "MethodNotAllowed"   -> MethodNotAllowed_default_response
      [] e.type = "CompletionRedirect" -> Redirect_default_response(e)

-----------------------------------------------------------------------------
(* Values handlers return, resource instances, members of a resource *)

Node(cls, id) == [cls |-> cls, id |-> id]

NoNode == Node("", "")

\* a value: its Python type, the handler (or hook) that made it, the resource
\* instance the handler was bound to, the arguments the handler received, and
\* the post-hooks applied to it so far, innermost first
Val(ty, h, self, a, k) ==
    [ty |-> ty, h |-> h, self |-> self, a |-> a, k |-> k, post |-> <<>>]

NoneVal == Val("NoneType", "", NoNode, <<>>, {})

\* inspect.Parameter of a handler, self left out
Param(name, kind, ann, hasdef, def) ==
    [name |-> name, kind |-> kind, ann |-> ann, hasdef |-> hasdef, def |-> def]

\* a member of a resource class: its _zweb tag, _zweb_pre, _zweb_post, the
\* parameters its signature was compiled from, what its body does, and for a
\* child resource the class of the child
Member(kind, pre, post, sig, body, target) ==
    [kind |-> kind, pre |-> pre, post |-> post, sig |-> sig, body |-> body,
     target |-> target, deco |-> <<>>]

\* the member with the wrappers deco registered by web.decorator, the one
\* registered first (the innermost) first
Decorate(member, deco) == [member EXCEPT !.deco = deco]

\* getattr(node, name, None) is None
NoMember == Member("", <<>>, <<>>, <<>>, "", "")

\* the markers of core.py
LEAF_HTTP_METHOD == "LEAF_HTTP_METHOD"

RESOURCE_METHOD == "RESOURCE_METHOD"

RESOURCE == "RESOURCE"

\* PathResolver._LEAF_METHODS and MethodResolver._LEAF_METHODS
LEAF_METHODS == {"LEAF_METHOD", LEAF_HTTP_METHOD}

\* PathResolver._RES_METHODS and MethodResolver._RES_METHODS
RES_METHODS == {RESOURCE_METHOD, "RES_HTTP_METHOD"}

Page(pre, post, sig, body) == Member(LEAF_HTTP_METHOD, pre, post, sig, body, "")

\* class Root of TestResolve, with the hooks of TestDecorators.Root, the child
\* resources of TestMethod.Root and TestDefault.Root, forums with a parameter
\* in the manner of no_annotation, and a page whose body is any handler at all
\* (AnyBody)
RootMembers(name) ==
    CASE name = "index"  -> Page(<<>>, <<>>, <<>>, "return")
      [] name = "about"  ->
            Page(<<>>, <<"add_suffix", "add_prefix">>, <<>>, "return")
      [] name = "forum"  ->
            Member(RESOURCE_METHOD, <<"check_id">>, <<"add_suffix">>,
                   <<Param("id", "pos", "int", TRUE, "None")>>, "forum", "")
      [] name = "forums" ->
            Page(<<>>, <<>>, <<Param("k", "pos", "", TRUE, "d")>>, "return")
      [] name = "one"    -> Member(RESOURCE, <<>>, <<>>, <<>>, "", "One")
      [] name = "star"   -> Member(RESOURCE, <<>>, <<>>, <<>>, "", "Star")
      [] name = "hello"  -> Member(RESOURCE, <<>>, <<>>, <<>>, "", "Hello")
      [] name = "act"    -> Page(<<>>, <<>>, <<>>, "any")
      [] OTHER           -> NoMember

\* class Forum of TestResolve, topic with the hooks of TestDecorators.Forum
ForumMembers(name) ==
    CASE name = "index"     -> Page(<<>>, <<>>, <<>>, "return")
      [] name = "new_topic" -> Page(<<>>, <<>>, <<>>, "return")
      [] name = "topic"     ->
            Page(<<"check_id", "check_k">>, <<"add_suffix">>,
                 <<Param("topic", "pos", "int", FALSE, ""),
                   Param("offset", "kwonly", "int", TRUE, "int(0)")>>,
                 "return")
      [] OTHER              -> NoMember

\* class one of TestDefault.Root
OneMembers(name) ==
    CASE name = "index"   -> Page(<<>>, <<>>, <<>>, "return")
      [] name = "default" ->
            Page(<<>>, <<>>, <<Param("one", "pos", "", FALSE, "")>>, "return")
      [] OTHER            -> NoMember

\* class star of TestDefault.Root
StarMembers(name) ==
    CASE name = "default" ->
            Page(<<>>, <<>>, <<Param("star", "varpos", "", FALSE, "")>>, "return")
      [] OTHER            -> NoMember

\* class Hello of TestMethod, with pages named index, default and about (a
\* path segment) that its resolver is never to look up
HelloMembers(name) ==
    CASE name = "GET" -> Page(<<>>, <<>>, <<>>, "return")
      [] name = "PUT" ->
            Page(<<>>, <<>>, <<Param("data", "pos", "", FALSE, "")>>, "return")
      [] name \in {"index", "default", "about"} ->
            Page(<<>>, <<>>, <<Param("arg", "pos", "", TRUE, "None")>>, "return")
      [] OTHER        -> NoMember

\* class StaticResource
StaticResourceMembers(name) ==
    CASE name = "default" ->
            Page(<<>>, <<>>,
                 <<Param("folder", "pos", "", FALSE, ""),
                   Param("path", "varpos", "", FALSE, "")>>, "static")
      [] OTHER            -> NoMember

\* MyRes of TestLocalDispatch: a page, a page whose name begins with an
\* underscore, and a method that is no page
MyResMembers(name) ==
    CASE name = "hello"     -> Page(<<>>, <<>>, <<>>, "hello")
      [] name = "_hidden"   -> Page(<<>>, <<>>, <<>>, "hidden")
      [] name = "invisible" -> Member("", <<>>, <<>>, <<>>, "invisible", "")
      [] OTHER              -> NoMember

\* a resource whose method forum is Root.forum of TestDecorators, a resource
\* method with pre-hooks and post-hooks: the instance node says which
GateMembers(node, name) ==
    CASE name = "forum" ->
            Member(RESOURCE_METHOD, node.id.pre, node.id.post,
                   <<Param("id", "pos", "int", TRUE, "None")>>, "forum", "")
      [] OTHER          -> NoMember

\* a resource with an index page alone, as Root of TestResolve has one: the
\* instance node says which parameters the page declares
BoardMembers(node, name) ==
    CASE name = "index" -> Page(<<>>, <<>>, node.id, "return")
      [] OTHER          -> NoMember

\* a resource addressed by verb as Hello is, whose GET is a plain resource
VerbsMembers(name) ==
    CASE name = "GET" -> Member(RESOURCE, <<>>, <<>>, <<>>, "", "Forum")
      [] name = "PUT" ->
            Page(<<>>, <<>>, <<Param("data", "pos", "", TRUE, "None")>>,
                 "return")
      [] OTHER        -> NoMember

\* a resource whose default is a resource method without parameters
AnyMembers(name) ==
    CASE name = "default" ->
            Member(RESOURCE_METHOD, <<>>, <<>>, <<>>, "child", "Forum")
      [] OTHER            -> NoMember

\* the root of those two
TreeMembers(name) ==
    CASE name = "index" -> Page(<<>>, <<>>, <<>>, "return")
      [] name = "verbs" -> Member(RESOURCE, <<>>, <<>>, <<>>, "", "Verbs")
      [] name = "any"   -> Member(RESOURCE, <<>>, <<>>, <<>>, "", "Any")
      [] name = "forum" -> Member(RESOURCE, <<>>, <<>>, <<>>, "", "Forum")
      [] OTHER          -> NoMember

\* getattr(node, name, None)
GetAttr(node, name) ==
    CASE node.cls = "Root"           -> RootMembers(name)
      [] node.cls = "Tree"           -> TreeMembers(name)
      [] node.cls = "Verbs"          -> VerbsMembers(name)
      [] node.cls = "Any"            -> AnyMembers(name)
      [] node.cls = "Board"          -> BoardMembers(node, name)
      [] node.cls = "Gate"           -> GateMembers(node, name)
      [] node.cls = "MyRes"          -> MyResMembers(name)
      [] node.cls = "Forum"          -> ForumMembers(name)
      [] node.cls = "One"            -> OneMembers(name)
      [] node.cls = "Star"           -> StarMembers(name)
      [] node.cls = "Hello"          -> HelloMembers(name)
      [] node.cls = "StaticResource" -> StaticResourceMembers(name)
      [] OTHER                       -> NoMember

\* the http_resolver_class of a resource class
http_resolver_class(node) ==
    IF node.cls \in {"Hello", "Verbs"} THEN "MethodResolver"
    ELSE "PathResolver"

\* Site.resources: a static folder before the application, as the docstring
\* of StaticResource has it
Resources == <<Node("StaticResource", ""), Node("Root", "")>>

\* str.isidentifier
isidentifier(name) == name \notin {"", "10", "hello world"}

\* name.startswith('_')
startswith_underscore(name) == name \in {"_hidden"}

\* a Resource.resolve_local without the check of the first character
resolve_local_underscore(node, name) ==
    IF ~isidentifier(name) THEN NoMember
    ELSE LET target == GetAttr(node, name)
         IN IF target.kind # "" THEN target ELSE NoMember

\* Resource.resolve_local: the member, or NoMember for ChildNotFound
resolve_local(node, name) ==
    IF ~isidentifier(name) \/ startswith_underscore(name) THEN NoMember
    ELSE LET target == GetAttr(node, name)
         IN IF target = NoMember THEN NoMember
            ELSE IF target.kind # "" THEN target
            ELSE NoMember

-----------------------------------------------------------------------------
(* _compile_signature: the binder __sig__ generated for a handler *)

\* the marker __empty__ passed as the default of an annotated parameter
Empty == "__empty__"

\* a parameter no input supplies and that has no default
Missing == "__missing__"

\* texts int() accepts, and the integers they denote (written int(...))
Numerals == {"10"}

int(text) == CASE text = "10" -> "int(10)"

\* result of calling __sig__: error is "", "TypeError" or "ValueError"
BindResult(error, args, tail, kw) ==
    [error |-> error, args |-> args, tail |-> tail, kw |-> kw]

\* Sticker.create for the stickers of the fixtures
create(resolverKwargs) == "<request>"

\* the parameters Python binds input to when __sig__ is called: those of
\* fun_params, without resolver, __tail__ and __kw__
IsInput(p) == p.kind \in {"pos", "kwonly"} /\ p.ann # "Sticker"

\* the place of sig[i] among the positional parameters of fun_params
PosRank(sig, i) ==
    Cardinality({j \in 1..i : sig[j].kind = "pos" /\ sig[j].ann # "Sticker"})

\* the number of positional parameters of fun_params
PosCount(sig) == PosRank(sig, Len(sig))

\* the default __sig__ declares for a parameter
defname(p) ==
    IF ~p.hasdef THEN Missing ELSE IF p.ann # "" THEN Empty ELSE p.def

\* what Python binds to the parameter p, the rank-th positional one if it is
\* positional, when __sig__ is called with args and kwargs
Bound(p, rank, args, kwargs) ==
    IF p.kind = "pos" /\ rank <= Len(args) THEN args[rank]
    ELSE IF Has(kwargs, p.name) THEN Get(kwargs, p.name)
    ELSE defname(p)

\* the same for every parameter of the handler ("" where Python binds none)
BoundAll(sig, args, kwargs) ==
    [i \in 1..Len(sig) |->
        IF IsInput(sig[i]) THEN Bound(sig[i], PosRank(sig, i), args, kwargs)
        ELSE ""]

\* the call of __sig__ raises TypeError
CallError(sig, partial, args, kwargs, raw) ==
    \/ /\ Len(args) > PosCount(sig)
       /\ ~partial
       /\ \A i \in 1..Len(sig) : sig[i].kind # "varpos"
    \/ \E i \in 1..Len(sig) :
          /\ sig[i].kind = "pos" /\ sig[i].ann # "Sticker"
          /\ PosRank(sig, i) <= Len(args)
          /\ Has(kwargs, sig[i].name)
    \/ Has(kwargs, "resolver")
    \/ \E i \in 1..Len(sig) : IsInput(sig[i]) /\ raw[i] = Missing

\* a cast in the body of __sig__ raises ValueError
CastError(sig, raw) ==
    \E i \in 1..Len(sig) :
        /\ IsInput(sig[i]) /\ sig[i].ann = "int"
        /\ raw[i] \notin {Empty, Missing}
        /\ raw[i] \notin Numerals

\* a binder that passes the default through the annotation as well
CastDefaultToo(p, v, kwargs) ==
    IF p.ann = "Sticker" THEN create(kwargs)
    ELSE IF p.ann = "" THEN v
    ELSE IF p.ann = "int"
    THEN (IF v = Empty THEN "int(" \o p.def \o ")" ELSE int(v))
    ELSE v

\* a binder that lets a form argument of its name set a sticker parameter
CastFromInput(p, v, kwargs) ==
    IF Has(kwargs, p.name) THEN Get(kwargs, p.name)
    ELSE IF p.ann = "Sticker" THEN create(kwargs)
    ELSE v

\* the value the body of __sig__ leaves in the parameter p bound to v
Cast(p, v, kwargs) ==
    IF p.ann = "Sticker" THEN create(kwargs)
    ELSE IF p.ann = "" THEN v
    ELSE IF v = Empty THEN p.def
    ELSE IF p.ann = "int" THEN int(v)
    ELSE v

CastAll(sig, raw, kwargs) ==
    [i \in 1..Len(sig) |-> [name |-> sig[i].name, kind |-> sig[i].kind,
                            value |-> Cast(sig[i], raw[i], kwargs)]]

\* the names of the parameters of fun_params
Named(sig) == {sig[i].name : i \in {j \in 1..Len(sig) : IsInput(sig[j])}}

\* the return statement of __sig__, final the parameters with their values
Return(sig, partial, args, kwargs, final, varpos, varkw) ==
    LET positional == SelectSeq(final, LAMBDA f : f.kind = "pos")
        kwarg_string == {<<final[i].name, final[i].value>> :
                            i \in {j \in 1..Len(final) : final[j].kind = "kwonly"}}
        rest == Drop(args, PosCount(sig))
    IN BindResult("",
           [i \in 1..Len(positional) |-> positional[i].value]
               \o (IF varpos THEN rest ELSE <<>>),
           IF varpos THEN <<>> ELSE IF partial THEN rest ELSE <<>>,
           IF varkw
           THEN Update({pr \in kwargs : pr[1] \notin Named(sig)}, kwarg_string)
           ELSE kwarg_string)

\* __sig__ called with args and kwargs, raw what Python bound
CallSig(sig, partial, args, kwargs, raw) ==
    IF CallError(sig, partial, args, kwargs, raw)
    THEN BindResult("TypeError", <<>>, <<>>, {})
    ELSE IF CastError(sig, raw) THEN BindResult("ValueError", <<>>, <<>>, {})
    ELSE Return(sig, partial, args, kwargs, CastAll(sig, raw, kwargs),
                \E i \in 1..Len(sig) : sig[i].kind = "varpos",
                \E i \in 1..Len(sig) : sig[i].kind = "varkw")

\* a binder that leaves what is left of the positional input to the caller
\* whether or not it was compiled with partial
_compile_signature_partial(sig, partial, args, kwargs) ==
    CallSig(sig, TRUE, args, kwargs, BoundAll(sig, args, kwargs))

\* fun._zweb_sig(resolver, *args, **kwargs) for the handler with the
\* parameters sig
_compile_signature(sig, partial, args, kwargs) ==
    CallSig(sig, partial, args, kwargs, BoundAll(sig, args, kwargs))

-----------------------------------------------------------------------------
(* Hooks and handler bodies of the fixtures *)

\* what the body of the page Root.act may do: return a value of one of these
\* types ...
ReturnTypes ==
    {"str", "bytes", "NoneType", "int", "seq0", "seq1", "seq2", "seq3",
     "seq4", "http_response", "http_response_async", "http_response_str",
     "http_response_seq2", "http_response_raises"}

\* ... or raise one of these, or a PathRewrite to itself or to /forums
Raisable ==
    {"NotFound", "Forbidden", "MethodNotAllowed", "CompletionRedirect",
     "RuntimeError", "ValueError"}

Behaviours == ReturnTypes \cup Raisable \cup {"rewrite_act", "rewrite_forums"}

\* a pre-hook in the manner of check_access: it answers 'denied' when the
\* request carries the argument it looks at, and None otherwise
prefun(hook, self, args, kwargs) ==
    CASE hook = "check_id" /\ Has(kwargs, "id") ->
            Val("str", "check_id", self, <<>>, {})
      [] hook = "check_k" /\ Has(kwargs, "k")   ->
            Val("str", "check_k", self, <<>>, {})
      [] OTHER -> NoneVal

\* a post-hook in the manner of add_prefix and add_suffix: it wraps the value
proc(hook, value) == [value EXCEPT !.post = Append(@, hook)]

\* what a wrapper does: it raises TypeError, returns val on its own, or
\* calls its continuation with args and kw and returns what that returns
Wrapped(error, skip, val, args, kw) ==
    [error |-> error, skip |-> skip, val |-> val, args |-> args, kw |-> kw]

\* the wrappers of TestDecorators called with args and kw after self,
\* resolver and meth. form(**kw) calls meth(1, b=2) when the request has
\* form arguments and returns 'form' otherwise; hidden(a, b) calls
\* meth(a, b=b, c=69)
parser(name, self, res, args, kw) ==
    CASE name = "form" ->
            IF args # <<>> THEN Wrapped(TRUE, FALSE, NoneVal, <<>>, {})
            ELSE IF res.kwargs # {}
            THEN Wrapped(FALSE, FALSE, NoneVal, <<"1">>, {<<"b", "2">>})
            ELSE Wrapped(FALSE, TRUE, Val("str", "form", self, <<>>, {}),
                         <<>>, {})
      [] name = "hidden" ->
            IF \/ Len(args) > 2
               \/ \E pr \in kw : pr[1] \notin {"a", "b"}
               \/ Len(args) >= 1 /\ Has(kw, "a")
               \/ Len(args) >= 2 /\ Has(kw, "b")
               \/ Len(args) = 0 /\ ~Has(kw, "a")
               \/ Len(args) <= 1 /\ ~Has(kw, "b")
            THEN Wrapped(TRUE, FALSE, NoneVal, <<>>, {})
            ELSE Wrapped(FALSE, FALSE, NoneVal,
                         <<IF Len(args) >= 1 THEN args[1] ELSE Get(kw, "a")>>,
                         {<<"b", IF Len(args) >= 2 THEN args[2]
                                 ELSE Get(kw, "b")>>,
                          <<"c", "69">>})

\* what calling a handler gives: a value, a resource, or an exception
Returned(val) == [t |-> "return", val |-> val, node |-> NoNode, exc |-> NoExc]

Raised(e) == [t |-> "raise", val |-> NoneVal, node |-> NoNode, exc |-> e]

ReturnedNode(node) ==
    [t |-> "return", val |-> NoneVal, node |-> node, exc |-> NoExc]

\* StaticResource.default: folders is ['forums'] and the directory holds the
\* one file forums/10
StaticResource_default(self, args) ==
    LET folder == args[1]
        path   == Tail(args)
    IN IF folder \notin {"forums"} THEN Raised(Exc("NotFound", NoUri))
       ELSE IF path # <<"10">> THEN Raised(Exc("NotFound", NoUri))
       ELSE Returned(Val("seq3", "default", self, args, {}))

\* Root.forum of TestResolve
Root_forum(self, args) ==
    IF args[1] # "None" THEN ReturnedNode(Node("Forum", args[1]))
    ELSE Raised(Exc("PathRewrite", MakeUri(<<"forums">>, FALSE, {})))

\* a body that behaves in the way b
AnyBody(b, name, self, args, kw) ==
    CASE b \in ReturnTypes    -> Returned(Val(b, name, self, args, kw))
      [] b = "rewrite_act"    ->
            Raised(Exc("PathRewrite", MakeUri(<<"act">>, FALSE, {})))
      [] b = "rewrite_forums" ->
            Raised(Exc("PathRewrite", MakeUri(<<"forums">>, FALSE, {})))
      [] b = "CompletionRedirect" ->
            Raised(Exc(b, MakeUri(<<"forums">>, FALSE, {})))
      [] OTHER                -> Raised(Exc(b, NoUri))

\* the call of the member fun, named name, of the resource self with the
\* positional arguments args and the keyword arguments kw
Call(fun, name, self, args, kw, b) ==
    CASE fun.body = "return" -> Returned(Val("str", name, self, args, kw))
      [] fun.body = "static" -> StaticResource_default(self, args)
      [] fun.body = "forum"  -> Root_forum(self, args)
      [] fun.body = "child"  -> ReturnedNode(Node(fun.target, ""))
      [] fun.body = "any"    -> AnyBody(b, name, self, args, kw)

-----------------------------------------------------------------------------
(* _dispatch_leaf and _dispatch_resource *)

\* index of the first pre-hook that returns a value, 0 when all return None
FirstAnswer(pre, self, args, kwargs) ==
    LET answers == {i \in 1..Len(pre) : prefun(pre[i], self, args, kwargs) # NoneVal}
    IN IF answers = {} THEN 0
       ELSE CHOOSE i \in answers : \A j \in answers : i <= j

\* a loop over _zweb_pre without the break: every pre-hook runs
RunPreAll(pre, self, args, kwargs) ==
    LET first == FirstAnswer(pre, self, args, kwargs)
    IN [val |-> IF first = 0 THEN NoneVal
                ELSE prefun(pre[first], self, args, kwargs),
        ev  |-> [i \in 1..Len(pre) |-> <<"pre", pre[i]>>]]

\* the for loop over _zweb_pre: the value it ends with and the hooks it ran
RunPre(pre, self, args, kwargs) ==
    LET first == FirstAnswer(pre, self, args, kwargs)
        ran   == IF first = 0 THEN Len(pre) ELSE first
    IN [val |-> IF first = 0 THEN NoneVal
                ELSE prefun(pre[first], self, args, kwargs),
        ev  |-> [i \in 1..ran |-> <<"pre", pre[i]>>]]

\* a for loop over reversed(_zweb_post): the hook registered last runs first
RECURSIVE RunPostLastFirst(_, _)
RunPostLastFirst(post, value) ==
    IF post = <<>> THEN value
    ELSE RunPostLastFirst(SubSeq(post, 1, Len(post) - 1),
                          proc(post[Len(post)], value))

\* the for loop over _zweb_post
RECURSIVE RunPost(_, _)
RunPost(post, value) ==
    IF post = <<>> THEN value
    ELSE RunPost(Tail(post), proc(Head(post), value))

PostEvents(post) == [i \in 1..Len(post) |-> <<"post", post[i]>>]

\* what a dispatch gives: t is "return", "raise", "resource" or "interrupt"
Dispatched(t, val, node, tail, e, ev) ==
    [t |-> t, val |-> val, node |-> node, tail |-> tail, exc |-> e, ev |-> ev]

NotFoundExc == Exc("NotFound", NoUri)

BindEvent(name) == <<<<"bind", name>>>>

BodyEvents(name) == <<<<"bind", name>>, <<"body", name>>>>

\* _dispatch_leaf from line 447 on: the handler was called and came to out
LeafCalled(fun, name, pre, out) ==
    IF out.t = "raise"
    THEN Dispatched("raise", NoneVal, NoNode, <<>>, out.exc,
                    pre.ev \o BodyEvents(name))
    ELSE Dispatched("return", RunPost(fun.post, out.val), NoNode, <<>>, NoExc,
                    pre.ev \o BodyEvents(name) \o PostEvents(fun.post))

\* Python cannot call the handler with the keyword arguments kw next to
\* positional ones for self and every positional parameter: a keyword names
\* one of them
CallRaises(sig, kw) ==
    \/ Has(kw, "self")
    \/ \E i \in 1..Len(sig) : sig[i].kind = "pos" /\ Has(kw, sig[i].name)

\* _dispatch_leaf from line 441 on: the binder came to sig
LeafBound(fun, name, self, b, pre, sig) ==
    IF sig.error # ""
    THEN Dispatched("raise", NoneVal, NoNode, <<>>, NotFoundExc,
                    pre.ev \o BindEvent(name))
    ELSE IF CallRaises(fun.sig, sig.kw)
    THEN Dispatched("raise", NoneVal, NoNode, <<>>, Exc("TypeError", NoUri),
                    pre.ev \o BindEvent(name))
    ELSE LeafCalled(fun, name, pre, Call(fun, name, self, sig.args, sig.kw, b))

\* what a wrapper or a callee came to, and what ran
Came(out, ev) == [t |-> out.t, val |-> out.val, exc |-> out.exc, ev |-> ev]

\* a callee without the except clause: what the binder raises leaves it
callee_bind_uncaught(fun, name, self, b, args, kw, sig) ==
    IF sig.error # ""
    THEN Came(Raised(Exc(sig.error, NoUri)),
              <<<<"callee", name, args, kw>>>> \o BindEvent(name))
    ELSE Came(Call(fun, name, self, sig.args, sig.kw, b),
              <<<<"callee", name, args, kw>>>> \o BodyEvents(name))

\* the callee web.decorator made for the wrapper registered first, lines
\* 517-527: it binds args and kw through the signature of the handler and
\* calls the handler
callee_bind(fun, name, self, b, args, kw, sig) ==
    IF sig.error # ""
    THEN Came(Raised(NotFoundExc),
              <<<<"callee", name, args, kw>>>> \o BindEvent(name))
    ELSE IF CallRaises(fun.sig, sig.kw)
    THEN Came(Raised(Exc("TypeError", NoUri)),
              <<<<"callee", name, args, kw>>>> \o BindEvent(name))
    ELSE Came(Call(fun, name, self, sig.args, sig.kw, b),
              <<<<"callee", name, args, kw>>>> \o BodyEvents(name))

\* a chain of wrappers in which each continuation calls the handler's own
\* callee, whatever wrappers are registered inside it
callee_direct(fun, name, self, res, b, k, args, kw) ==
    IF k = 0
    THEN callee_bind(fun, name, self, b, args, kw,
                     _compile_signature(fun.sig, FALSE, args, kw))
    ELSE IF parser(fun.deco[k], self, res, args, kw).error
    THEN Came(Raised(Exc("TypeError", NoUri)),
              <<<<"deco", fun.deco[k], args, kw>>>>)
    ELSE IF parser(fun.deco[k], self, res, args, kw).skip
    THEN Came(Returned(parser(fun.deco[k], self, res, args, kw).val),
              <<<<"deco", fun.deco[k], args, kw>>>>)
    ELSE Came(callee_bind(fun, name, self, b,
                          parser(fun.deco[k], self, res, args, kw).args,
                          parser(fun.deco[k], self, res, args, kw).kw,
                          _compile_signature(fun.sig, FALSE,
                              parser(fun.deco[k], self, res, args, kw).args,
                              parser(fun.deco[k], self, res, args, kw).kw)),
              <<<<"deco", fun.deco[k], args, kw>>>>
                  \o callee_bind(fun, name, self, b,
                          parser(fun.deco[k], self, res, args, kw).args,
                          parser(fun.deco[k], self, res, args, kw).kw,
                          _compile_signature(fun.sig, FALSE,
                              parser(fun.deco[k], self, res, args, kw).args,
                              parser(fun.deco[k], self, res, args, kw).kw)).ev)

\* the wrapper fun.deco[k] called with args and kw and, for continuation,
\* the callee of lines 529-533 that calls the wrapper registered before it;
\* for k = 0 the callee of the handler itself
RECURSIVE callee(_, _, _, _, _, _, _, _)
callee(fun, name, self, res, b, k, args, kw) ==
    IF k = 0
    THEN callee_bind(fun, name, self, b, args, kw,
                     _compile_signature(fun.sig, FALSE, args, kw))
    ELSE LET w == parser(fun.deco[k], self, res, args, kw)
             called == <<<<"deco", fun.deco[k], args, kw>>>>
         IN IF w.error THEN Came(Raised(Exc("TypeError", NoUri)), called)
            ELSE IF w.skip THEN Came(Returned(w.val), called)
            ELSE LET inner == callee(fun, name, self, res, b, k - 1,
                                     w.args, w.kw)
                 IN Came(inner, called \o inner.ev)

\* _dispatch_leaf, lines 432-436 and 448-450: the outermost wrapper came to
\* out
LeafDecorated(fun, pre, out) ==
    IF out.t = "raise"
    THEN Dispatched("raise", NoneVal, NoNode, <<>>, out.exc, pre.ev \o out.ev)
    ELSE Dispatched("return", RunPost(fun.post, out.val), NoNode, <<>>, NoExc,
                    pre.ev \o out.ev \o PostEvents(fun.post))

\* a _dispatch_leaf that binds and calls the handler whatever the pre-hooks
\* returned
LeafAfterPreCallsAnyway(fun, name, self, res, b, pre) ==
    LeafBound(fun, name, self, b, pre,
              _compile_signature(fun.sig, FALSE, res.args, res.kwargs))

\* _dispatch_leaf from line 431 on: the pre-hooks came to pre
LeafAfterPre(fun, name, self, res, b, pre) ==
    IF pre.val # NoneVal
    THEN Dispatched("return", RunPost(fun.post, pre.val), NoNode, <<>>, NoExc,
                    pre.ev \o PostEvents(fun.post))
    ELSE IF fun.deco # <<>>
    THEN LeafDecorated(fun, pre,
                       callee(fun, name, self, res, b, Len(fun.deco),
                              res.args, res.kwargs))
    ELSE LeafBound(fun, name, self, b, pre,
                   _compile_signature(fun.sig, FALSE, res.args, res.kwargs))

_dispatch_leaf(fun, name, self, res, b) ==
    LeafAfterPre(fun, name, self, res, b,
                 RunPre(fun.pre, self, res.args, res.kwargs))

\* _dispatch_resource from line 290 on
ResourceCalled(name, pre, tail, out) ==
    IF out.t = "raise"
    THEN Dispatched("raise", NoneVal, NoNode, <<>>, out.exc,
                    pre.ev \o BodyEvents(name))
    ELSE Dispatched("resource", NoneVal, out.node, tail, NoExc,
                    pre.ev \o BodyEvents(name))

\* _dispatch_resource from line 284 on
ResourceBound(fun, name, self, b, pre, sig) ==
    IF sig.error # ""
    THEN Dispatched("raise", NoneVal, NoNode, <<>>, NotFoundExc,
                    pre.ev \o BindEvent(name))
    ELSE IF CallRaises(fun.sig, sig.kw)
    THEN Dispatched("raise", NoneVal, NoNode, <<>>, Exc("TypeError", NoUri),
                    pre.ev \o BindEvent(name))
    ELSE ResourceCalled(name, pre, sig.tail,
                        Call(fun, name, self, sig.args, sig.kw, b))

\* a _dispatch_resource that binds and calls the handler whatever the
\* pre-hooks returned
ResourceAfterPreCallsAnyway(fun, name, self, res, b, pre) ==
    ResourceBound(fun, name, self, b, pre,
                  _compile_signature(fun.sig, TRUE, res.args, res.kwargs))

\* _dispatch_resource from line 273 on
ResourceAfterPre(fun, name, self, res, b, pre) ==
    IF pre.val # NoneVal
    THEN Dispatched("interrupt", RunPost(fun.post, pre.val), NoNode, <<>>,
                    NoExc, pre.ev \o PostEvents(fun.post))
    ELSE ResourceBound(fun, name, self, b, pre,
                       _compile_signature(fun.sig, TRUE, res.args, res.kwargs))

_dispatch_resource(fun, name, self, res, b) ==
    ResourceAfterPre(fun, name, self, res, b,
                     RunPre(fun.pre, self, res.args, res.kwargs))

-----------------------------------------------------------------------------
(* Resolvers *)

Resolver(kind, args, kwargs, resource) ==
    [kind |-> kind, args |-> args, kwargs |-> kwargs, resource |-> resource]

NoResolver == Resolver("", <<>>, {}, NoNode)

\* PathResolver.index_method, PathResolver.default_method; None for the
\* MethodResolver
index_method(res) == IF res.kind = "PathResolver" THEN "index" ELSE ""

default_method(res) == IF res.kind = "PathResolver" THEN "default" ELSE ""

\* a child_error that is BaseResolver's for every resolver
child_error_inherited(res) == Exc("NotFound", NoUri)

\* child_error of the resolver
child_error(res) ==
    IF res.kind = "MethodResolver" THEN Exc("MethodNotAllowed", NoUri)
    ELSE Exc("NotFound", NoUri)

\* str.upper of the method names requests carry
upper(method) == CASE method = "get" -> "GET" [] OTHER -> method

\* __next__ has a name to give (a MethodResolver always has)
HasNext(res) == res.kind = "MethodResolver" \/ res.args # <<>>

\* the name __next__ gives
NextName(res, req) ==
    IF res.kind = "MethodResolver" THEN upper(req.method) ELSE Head(res.args)

\* the resolver after __next__
AfterNext(res) ==
    IF res.kind = "MethodResolver" THEN res
    ELSE [res EXCEPT !.args = Tail(@)]

\* an unused_part that does not put the name back
unused_part_lost(res, part) == res

\* unused_part
unused_part(res, part) ==
    IF res.kind = "PathResolver" THEN [res EXCEPT !.args = <<part>> \o @]
    ELSE res

\* a set_args that leaves the resolver's input as it was
set_args_kept(res, args) == res

\* set_args
set_args(res, args) == [res EXCEPT !.args = args]

\* PathResolver.__init__: parent is NoResolver for None.  The while loop never
\* moves to the parent's parent, so under a parent that is no PathResolver it
\* does not end (hang).
PathResolver_init(req, parent) ==
    LET r1 == ReadParsedUri(req)
        r2 == ReadFormArguments(IF parent = NoResolver THEN r1 ELSE req)
    IN [hang    |-> parent # NoResolver /\ parent.kind # "PathResolver",
        error   |-> NoExc,
        request |-> r2,
        res     |-> Resolver("PathResolver",
                             IF parent = NoResolver
                             THEN get_path(r1.parsed_uri.path) ELSE parent.args,
                             r2.form_arguments, NoNode)]

\* MethodResolver.__init__
MethodResolver_init(req, parent) ==
    LET r2 == ReadFormArguments(req)
    IN IF parent = NoResolver
       THEN [hang |-> FALSE, error |-> Exc("AttributeError", NoUri),
             request |-> req, res |-> NoResolver]
       ELSE [hang |-> FALSE, error |-> NoExc, request |-> r2,
             res |-> Resolver("MethodResolver", parent.args,
                              r2.form_arguments, NoNode)]

\* res_class(request, parent)
NewResolver(cls, req, parent) ==
    IF cls = "PathResolver" THEN PathResolver_init(req, parent)
    ELSE MethodResolver_init(req, parent)

-----------------------------------------------------------------------------
(* BaseResolver.resolve *)

\* what one pass of the for loop, or the code after it, comes to: t is
\* "continue" (next pass), "handover" (a resolver of class cls takes over),
\* "return" or "raise"
StepOut(t, res, cls, val, e, ev) ==
    [t |-> t, res |-> res, cls |-> cls, val |-> val, exc |-> e, ev |-> ev]

\* lines 88-95: the resolver class of the node reached
CheckResolverClass(res, ev) ==
    LET res_class == http_resolver_class(res.resource)
    IN IF res.kind # res_class
       THEN StepOut("handover", res, res_class, NoneVal, NoExc, ev)
       ELSE StepOut("continue", res, "", NoneVal, NoExc, ev)

\* lines 74-75: what _dispatch_leaf gave ends the resolution
LeafStep(res, d) == StepOut(d.t, res, "", d.val, d.exc, d.ev)

\* lines 77-82: what _dispatch_resource gave
ResourceStep(res, d) ==
    IF d.t = "interrupt" THEN StepOut("return", res, "", d.val, NoExc, d.ev)
    ELSE IF d.t = "raise" THEN StepOut("raise", res, "", NoneVal, d.exc, d.ev)
    ELSE CheckResolverClass(
             [set_args(res, d.tail) EXCEPT !.resource = d.node], d.ev)

\* lines 72-87: dispatch on the kind of the node found
DispatchKind(node, name, res, b) ==
    CASE node.kind \in LEAF_METHODS ->
            LeafStep(res, _dispatch_leaf(node, name, res.resource, res, b))
      [] node.kind \in RES_METHODS ->
            ResourceStep(res,
                _dispatch_resource(node, name, res.resource, res, b))
      [] node.kind = RESOURCE ->
            CheckResolverClass(
                [res EXCEPT !.resource = Node(node.target, "")], <<>>)
      [] OTHER -> StepOut("raise", res, "", NoneVal, NotFoundExc, <<>>)

\* lines 59-71: the child called name, or the default method with the name
\* put back, or the child error; r1 is the resolver after __next__
FindChild(res, r1, name, child, dflt) ==
    IF child # NoMember
    THEN [found |-> TRUE, node |-> child, name |-> name, res |-> r1]
    ELSE IF default_method(res) # "" /\ dflt # NoMember
    THEN [found |-> TRUE, node |-> dflt, name |-> default_method(res),
          res |-> unused_part(r1, name)]
    ELSE [found |-> FALSE, node |-> NoMember, name |-> name, res |-> r1]

ResolveFound(res, f, b) ==
    IF f.found THEN DispatchKind(f.node, f.name, f.res, b)
    ELSE StepOut("raise", f.res, "", NoneVal, child_error(res), <<>>)

\* lines 57-95: one pass of the for loop, for a resolver that has a next name
ResolveStep(res, req, b) ==
    ResolveFound(res,
        FindChild(res, AfterNext(res), NextName(res, req),
                  resolve_local(res.resource, NextName(res, req)),
                  GetAttr(res.resource, default_method(res))),
        b)

\* a resolve that, the input exhausted and no index leaf there, falls back to
\* the default method
ResolveEndOrDefault(res, b) ==
    IF /\ index_method(res) # ""
       /\ GetAttr(res.resource, index_method(res)).kind \in LEAF_METHODS
    THEN LeafStep(res,
             _dispatch_leaf(GetAttr(res.resource, index_method(res)),
                            index_method(res), res.resource, res, b))
    ELSE IF /\ default_method(res) # ""
            /\ GetAttr(res.resource, default_method(res)).kind \in LEAF_METHODS
    THEN LeafStep(res,
             _dispatch_leaf(GetAttr(res.resource, default_method(res)),
                            default_method(res), res.resource, res, b))
    ELSE StepOut("raise", res, "", NoneVal, NotFoundExc, <<>>)

\* lines 97-104: the input is exhausted
ResolveEnd(res, b) ==
    IF /\ index_method(res) # ""
       /\ GetAttr(res.resource, index_method(res)).kind \in LEAF_METHODS
    THEN LeafStep(res,
             _dispatch_leaf(GetAttr(res.resource, index_method(res)),
                            index_method(res), res.resource, res, b))
    ELSE StepOut("raise", res, "", NoneVal, NotFoundExc, <<>>)

\* the body of Root.act ran
RanAnyBody(ev) == \E i \in 1..Len(ev) : ev[i] = <<"body", "act">>

-----------------------------------------------------------------------------
(* Site *)

\* what _safe_dispatch returns: a handler's value or an error response
Result(kind, val, resp) == [kind |-> kind, val |-> val, resp |-> resp]

NoResult == Result("", NoneVal, <<>>)

\* Site.error_page
error_page(e) == default_response(e)

\* a _safe_dispatch that wraps every exception as an InternalError
ErrorResponseAllInternal(e, errorPageRaises) == InternalError_default_response

\* a _safe_dispatch whose 500 page shows the exception it stands for
ErrorResponseShowsException(e, errorPageRaises) ==
    IF e.type \in WebExceptions THEN default_response(e)
    ELSE << Literal("bytes", <<"500 Internal Server Error">>),
            Literal("bytes", <<"Content-Type", "text/html">>),
            Literal("bytes", <<e.type>>) >>

\* _safe_dispatch, lines 227-235: the response for an exception that is no
\* InternalRedirect; the same whether or not error_page itself raises
ErrorResponse(e, errorPageRaises) ==
    LET e2 == IF e.type \notin WebExceptions
              THEN Exc("InternalError", NoUri) ELSE e
    IN IF errorPageRaises THEN default_response(e2) ELSE error_page(e2)

\* PathRewrite.update_request: ok is FALSE when del request.parsed_uri finds
\* nothing cached to delete (AttributeError)
update_request(e, req) ==
    [ok      |-> req.has_parsed_uri,
     request |-> [req EXCEPT !.uri = e.location, !.has_parsed_uri = FALSE,
                             !.parsed_uri = NoUri]]

\* the items of a sequence a handler returned
Elements(val) ==
    LET n == CASE val.ty = "seq0" -> 0 [] val.ty = "seq1" -> 1
               [] val.ty = "seq2" -> 2 [] val.ty = "seq3" -> 3
               [] val.ty = "seq4" -> 4
        index == <<"[0]", "[1]", "[2]", "[3]">>
    IN [i \in 1..n |-> Item("element", <<index[i]>>, val)]

Status200 == Literal("int", <<"200">>)

NoHeaders == Literal("tuple", <<>>)

\* the types of result that have an http_response method (one of them a
\* coroutine function), apart from the one whose http_response raises
HasHttpResponse ==
    {"http_response", "http_response_async", "http_response_str",
     "http_response_seq2"}

\* result.http_response(): a sequence of three items, of two, or a str
http_response(val) ==
    [val EXCEPT !.h = "http_response",
                !.ty = CASE val.ty = "http_response_str"  -> "str"
                         [] val.ty = "http_response_seq2" -> "seq2"
                         [] OTHER                         -> "seq3"]

\* Site.dispatch, lines 246-261, applied to what _safe_dispatch returned:
\* the response, or the exception the normalisation raises
dispatch(res) ==
    LET Ok(resp)  == [exc |-> NoExc, response |-> resp]
        Fail(type) == [exc |-> Exc(type, NoUri), response |-> <<>>]
        \* lines 246-251
        rendered == IF res.val.ty \in HasHttpResponse
                    THEN http_response(res.val) ELSE res.val
        \* lines 256-260
        Short(items) ==
            IF Len(items) >= 3 THEN Ok(items)
            ELSE IF Len(items) = 2 THEN Ok(<<items[1], NoHeaders, items[2]>>)
            ELSE IF Len(items) = 1 THEN Ok(<<Status200, NoHeaders, items[1]>>)
            ELSE Fail("IndexError")
    IN IF res.kind = "response" THEN Short(res.resp)
       ELSE IF res.val.ty = "http_response_raises" THEN Fail("RuntimeError")
       ELSE IF rendered.ty = "str"
       THEN Short(<<Status200, NoHeaders, Item("utf-8", <<>>, rendered)>>)
       ELSE IF rendered.ty = "bytes"
       THEN Short(<<Status200, NoHeaders, Item("bytes", <<>>, rendered)>>)
       ELSE IF rendered.ty \in {"NoneType", "int"} THEN Fail("TypeError")
       ELSE Short(Elements(rendered))

-----------------------------------------------------------------------------
(* resolve and _resolve run to completion, as functions of the request *)

\* how a resolution ends: t is "return", "raise" or "hang"
Outcome(t, val, e) == [t |-> t, val |-> val, exc |-> e]

RECURSIVE resolve(_, _, _)

\* BaseResolver.resolve, lines 93-95: the resolver new takes over at resource
resolve_handover(new, resource, b) ==
    IF new.error # NoExc THEN Outcome("raise", NoneVal, new.error)
    ELSE IF new.hang THEN Outcome("hang", NoneVal, NoExc)
    ELSE resolve([new.res EXCEPT !.resource = resource], new.request, b)

\* BaseResolver.resolve after a pass that came to step
resolve_after(step, req, b) ==
    CASE step.t = "continue" -> resolve(step.res, req, b)
      [] step.t = "handover" ->
            resolve_handover(NewResolver(step.cls, req, step.res),
                             step.res.resource, b)
      [] OTHER -> Outcome(step.t, step.val, step.exc)

\* BaseResolver.resolve from the resolver res on, the body of Root.act
\* behaving in the way b
resolve(res, req, b) ==
    resolve_after(IF HasNext(res) THEN ResolveStep(res, req, b)
                  ELSE ResolveEnd(res, b), req, b)

RECURSIVE _resolve(_, _, _)

\* Site._resolve, lines 215-216: root i came to out
_resolve_next(i, req, out, b) ==
    IF out.t = "raise" /\ out.exc.type = "NotFound"
    THEN _resolve(i + 1, req, b)
    ELSE out

\* Site._resolve, lines 212-214: the resolver new, made for Resources[i],
\* resolves that root
resolve_root(i, new, b) ==
    IF new.error # NoExc THEN Outcome("raise", NoneVal, new.error)
    ELSE IF new.hang THEN Outcome("hang", NoneVal, NoExc)
    ELSE resolve([new.res EXCEPT !.resource = Resources[i]], new.request, b)

\* Site._resolve, one pass of the for loop
_resolve_try(i, new, b) ==
    _resolve_next(i, new.request, resolve_root(i, new, b), b)

\* Site._resolve from the root Resources[i] on
_resolve(i, req, b) ==
    IF i > Len(Resources) THEN Outcome("raise", NoneVal, NotFoundExc)
    ELSE _resolve_try(i, NewResolver(http_resolver_class(Resources[i]),
                                     req, NoResolver), b)

-----------------------------------------------------------------------------
(* The state machine *)

Phases == {"idle", "resolve", "walk", "handover", "raised", "failed",
           "returned", "done", "crashed", "hung"}

\* no function is being called on its own
NoInput == [fn |-> ""]

NoOutput == [done |-> FALSE]

\* the call has come to val
Done(val) == [done |-> TRUE, val |-> val]

\* the site as constructed, before any request
Constructed ==
    /\ phase = "idle"
    /\ request = NewRequestObject(NoUri, "")
    /\ rootIdx = 0
    /\ resolver = NoResolver
    /\ pending = ""
    /\ exc = NoExc
    /\ result = NoResult
    /\ response = <<>>
    /\ trace = <<>>
    /\ restarts = 0
    /\ attempts = <<>>
    /\ choice = ""
    /\ orig = NewRequestObject(NoUri, "")
    /\ before = NoResolver
    /\ passEv = <<>>

Init ==
    /\ Constructed
    /\ input = NoInput
    /\ output = NoOutput

\* a request for a path of at most n segments arrives and Site.dispatch is
\* called with it
Arrive(n) ==
    /\ phase = "idle"
    /\ \E segs \in SeqsUpTo(Segments, n), q \in Queries, m \in Methods :
          /\ request' = NewRequestObject(MakeUri(segs, FALSE, q), m)
          /\ orig' = NewRequestObject(MakeUri(segs, FALSE, q), m)
    /\ phase' = "resolve"
    /\ rootIdx' = 1
    /\ before' = NoResolver
    /\ passEv' = <<>>
    /\ UNCHANGED <<input, output>>
    /\ UNCHANGED <<resolver, pending, exc, result, response, trace, restarts,
                   attempts, choice>>

\* Site._resolve, lines 211-212: the next root and a resolver for it
ResolveNextRoot ==
    /\ phase = "resolve"
    /\ rootIdx <= Len(Resources)
    /\ \E new \in {NewResolver(http_resolver_class(Resources[rootIdx]),
                               request, NoResolver)} :
          /\ request' = new.request
          /\ IF new.error # NoExc
             THEN /\ phase' = "raised"
                  /\ exc' = new.error
                  /\ resolver' = NoResolver
             ELSE /\ phase' = IF new.hang THEN "hung" ELSE "walk"
                  /\ exc' = NoExc
                  /\ resolver' = [new.res EXCEPT !.resource = Resources[rootIdx]]
    /\ trace' = <<>>
    /\ before' = NoResolver
    /\ passEv' = <<>>
    /\ UNCHANGED <<input, output>>
    /\ UNCHANGED <<rootIdx, pending, result, response, restarts, attempts,
                   choice, orig>>

\* Site._resolve, lines 217-218: no root is left
ResolveNoRoot ==
    /\ phase = "resolve"
    /\ rootIdx > Len(Resources)
    /\ phase' = "failed"
    /\ exc' = Exc("NotFound", NoUri)
    /\ before' = NoResolver
    /\ passEv' = <<>>
    /\ UNCHANGED <<input, output>>
    /\ UNCHANGED <<request, rootIdx, resolver, pending, result, response,
                   trace, restarts, attempts, choice, orig>>

\* the state after a pass of resolve that came to out, with b the way the
\* body of Root.act behaved if it ran
Advance(out, b) ==
    /\ trace' = trace \o out.ev
    /\ choice' = IF RanAnyBody(out.ev) THEN b ELSE choice
    /\ CASE out.t = "continue" ->
              /\ phase' = "walk"
              /\ resolver' = out.res
              /\ UNCHANGED <<pending, exc, result, attempts>>
         [] out.t = "handover" ->
              /\ phase' = "handover"
              /\ resolver' = out.res
              /\ pending' = out.cls
              /\ UNCHANGED <<exc, result, attempts>>
         [] out.t = "return" ->
              /\ phase' = "returned"
              /\ resolver' = out.res
              /\ result' = Result("value", out.val, <<>>)
              /\ attempts' = Append(attempts, "returned")
              /\ UNCHANGED <<pending, exc>>
         [] out.t = "raise" ->
              /\ phase' = "raised"
              /\ resolver' = out.res
              /\ exc' = out.exc
              /\ UNCHANGED <<pending, result, attempts>>
    /\ before' = resolver
    /\ passEv' = out.ev
    /\ UNCHANGED <<input, output>>
    /\ UNCHANGED <<request, rootIdx, response, restarts, orig>>

\* the ways the body of Root.act may behave in the pass that comes to out
ChoicesFor(out) == IF RanAnyBody(out.ev) THEN Behaviours ELSE {"str"}

\* BaseResolver.resolve, one pass of the for loop
Walk ==
    /\ phase = "walk"
    /\ HasNext(resolver)
    /\ \E b \in ChoicesFor(ResolveStep(resolver, request, "str")) :
          \E out \in {ResolveStep(resolver, request, b)} : Advance(out, b)

\* BaseResolver.resolve after the loop: the index method
WalkEnd ==
    /\ phase = "walk"
    /\ ~HasNext(resolver)
    /\ \E b \in ChoicesFor(ResolveEnd(resolver, "str")) :
          \E out \in {ResolveEnd(resolver, b)} : Advance(out, b)

\* BaseResolver.resolve, lines 93-94: a resolver of another class takes over
Handover ==
    /\ phase = "handover"
    /\ \E new \in {NewResolver(pending, request, resolver)} :
          /\ request' = new.request
          /\ IF new.error # NoExc
             THEN /\ phase' = "raised"
                  /\ exc' = new.error
                  /\ UNCHANGED resolver
             ELSE /\ phase' = IF new.hang THEN "hung" ELSE "walk"
                  /\ exc' = NoExc
                  /\ resolver' = [new.res EXCEPT !.resource = resolver.resource]
    /\ pending' = ""
    /\ before' = NoResolver
    /\ passEv' = <<>>
    /\ UNCHANGED <<input, output>>
    /\ UNCHANGED <<rootIdx, result, response, trace, restarts, attempts,
                   choice, orig>>

\* a Site._resolve with except Exception: continue
CatchAnyException ==
    /\ phase = "raised"
    /\ phase' = "resolve"
    /\ rootIdx' = rootIdx + 1
    /\ attempts' = Append(attempts, "NotFound")
    /\ exc' = NoExc
    /\ before' = NoResolver
    /\ passEv' = <<>>
    /\ UNCHANGED <<input, output>>
    /\ UNCHANGED <<request, resolver, pending, result, response, trace,
                   restarts, choice, orig>>

\* Site._resolve, lines 215-216: except NotFound: continue
CatchNotFound ==
    /\ phase = "raised"
    /\ exc.type = "NotFound"
    /\ phase' = "resolve"
    /\ rootIdx' = rootIdx + 1
    /\ attempts' = Append(attempts, "NotFound")
    /\ exc' = NoExc
    /\ before' = NoResolver
    /\ passEv' = <<>>
    /\ UNCHANGED <<input, output>>
    /\ UNCHANGED <<request, resolver, pending, result, response, trace,
                   restarts, choice, orig>>

\* the exception in flight has left Site._resolve
Escaped == \/ phase = "failed"
           \/ phase = "raised" /\ exc.type # "NotFound"

\* Site._safe_dispatch, lines 224-226: except InternalRedirect
Redirect ==
    /\ Escaped
    /\ exc.type \in InternalRedirects
    /\ \E upd \in {update_request(exc, request)} :
          IF upd.ok
          THEN /\ request' = upd.request
               /\ phase' = "resolve"
               /\ exc' = NoExc
          ELSE /\ request' = upd.request
               /\ phase' = "crashed"
               /\ exc' = Exc("AttributeError", NoUri)
    /\ rootIdx' = 1
    /\ restarts' = Min(restarts + 1, MaxRestartsCounted)
    /\ attempts' = <<>>
    /\ choice' = ""
    /\ before' = NoResolver
    /\ passEv' = <<>>
    /\ UNCHANGED <<input, output>>
    /\ UNCHANGED <<resolver, pending, result, response, trace, orig>>

\* Site._safe_dispatch, lines 227-235: except Exception
ErrorPage ==
    /\ Escaped
    /\ exc.type \notin InternalRedirects
    /\ \E errorPageRaises \in BOOLEAN :
          result' = Result("response", NoneVal, ErrorResponse(exc, errorPageRaises))
    /\ phase' = "returned"
    /\ before' = NoResolver
    /\ passEv' = <<>>
    /\ UNCHANGED <<input, output>>
    /\ UNCHANGED <<request, rootIdx, resolver, pending, exc, response, trace,
                   restarts, attempts, choice, orig>>

\* Site.dispatch, lines 246-261: the result becomes the response
Normalize ==
    /\ phase = "returned"
    /\ \E out \in {dispatch(result)} :
          IF out.exc = NoExc
          THEN /\ phase' = "done"
               /\ response' = out.response
               /\ UNCHANGED exc
          ELSE /\ phase' = "crashed"
               /\ exc' = out.exc
               /\ UNCHANGED response
    /\ before' = NoResolver
    /\ passEv' = <<>>
    /\ UNCHANGED <<input, output>>
    /\ UNCHANGED <<request, rootIdx, resolver, pending, result, trace,
                   restarts, attempts, choice, orig>>

NewRequest == Arrive(MaxPathLen)

Next ==
    \/ NewRequest
    \/ ResolveNextRoot
    \/ ResolveNoRoot
    \/ Walk
    \/ WalkEnd
    \/ Handover
    \/ CatchNotFound
    \/ Redirect
    \/ ErrorPage
    \/ Normalize

Spec == Init /\ [][Next]_vars

NewShortRequest == Arrive(MaxShortPathLen)

\* the same dispatch, of requests for short paths only
ShortNext ==
    \/ NewShortRequest
    \/ ResolveNextRoot
    \/ ResolveNoRoot
    \/ Walk
    \/ WalkEnd
    \/ Handover
    \/ CatchNotFound
    \/ Redirect
    \/ ErrorPage
    \/ Normalize

\* the event loop runs the one coroutine of a dispatch whenever it can run
FairSpec == Init /\ [][ShortNext]_vars /\ WF_vars(ShortNext)

-----------------------------------------------------------------------------
(* Functions called on their own *)

\* the resources resolve_local is called on
LocalNodes ==
    {Node("MyRes", ""), Node("Root", ""), Node("Forum", "10"), Node("One", ""),
     Node("Star", ""), Node("Hello", ""), Node("StaticResource", "")}

\* the names resolve_local is called with
LocalNames ==
    Segments \cup {"", "hello world", "_hidden", "invisible", "index",
                   "default", "GET"}

\* a resource and a name to call its resolve_local with
LocalInit ==
    /\ Constructed
    /\ input \in [fn : {"resolve_local"}, node : LocalNodes, name : LocalNames]
    /\ output = NoOutput

\* the call of resolve_local
ResolveLocal ==
    /\ input.fn = "resolve_local"
    /\ ~output.done
    /\ output' = Done(resolve_local(input.node, input.name))
    /\ UNCHANGED <<site, input>>

LocalSpec == LocalInit /\ [][ResolveLocal]_vars

\* the parameters, after self, of pages of the tests: about, Hello.PUT,
\* Forum.topic, profile, friend, banner and form2 of TestDecorators,
\* onestar.default of TestDefault, the pages of TestVarKw; and of a page with
\* a sticker and ** parameters
Signatures ==
    {<<>>,
     <<Param("data", "pos", "", FALSE, "")>>,
     <<Param("id", "pos", "int", FALSE, "")>>,
     <<Param("user", "pos", "Sticker", FALSE, "")>>,
     <<Param("user", "pos", "Sticker", FALSE, ""),
       Param("friend", "pos", "int", FALSE, "")>>,
     <<Param("ad", "pos", "int", FALSE, ""),
       Param("user", "pos", "Sticker", FALSE, ""),
       Param("position", "kwonly", "str", TRUE, "norm")>>,
     <<Param("u", "pos", "Sticker", FALSE, ""),
       Param("a", "pos", "", FALSE, ""), Param("b", "pos", "", FALSE, ""),
       Param("c", "pos", "", FALSE, "")>>,
     <<Param("one", "pos", "", FALSE, ""),
       Param("star", "varpos", "", FALSE, "")>>,
     <<Param("kw", "varkw", "", FALSE, "")>>,
     <<Param("a", "kwonly", "", FALSE, ""),
       Param("kw", "varkw", "", FALSE, "")>>,
     <<Param("a", "pos", "", FALSE, ""), Param("kw", "varkw", "", FALSE, "")>>,
     <<Param("a", "varpos", "", FALSE, ""),
       Param("kw", "varkw", "", FALSE, "")>>,
     <<Param("user", "pos", "Sticker", FALSE, ""),
       Param("kw", "varkw", "", FALSE, "")>>}

\* path segments given as positional input: a numeral and a word
ArgValues == {"10", "about"}

\* names of form arguments given as keyword input
KwNames == {"a", "b", "user", "friend", "position"}

\* form arguments: at most MaxKw of them, each name once
KwInputs ==
    {q \in SUBSET (KwNames \X ArgValues) :
        /\ Cardinality(q) <= MaxKw
        /\ \A x, y \in q : x[1] = y[1] => x = y}

\* a page and the positional and keyword input a resolver has for it
BindInit ==
    /\ Constructed
    /\ input \in [fn : {"_dispatch_leaf"}, sig : Signatures,
                  args : SeqsUpTo(ArgValues, MaxArgs), kwargs : KwInputs]
    /\ output = NoOutput

\* _dispatch_leaf of the page Root.page with the parameters input.sig, by a
\* resolver that has input.args and input.kwargs; sig is what the page's
\* _zweb_sig gives for them
DispatchLeaf ==
    /\ input.fn = "_dispatch_leaf"
    /\ ~output.done
    /\ output' = Done(
          [sig  |-> _compile_signature(input.sig, FALSE, input.args,
                                       input.kwargs),
           leaf |-> _dispatch_leaf(Page(<<>>, <<>>, input.sig, "return"),
                                   "page", Node("Root", ""),
                                   Resolver("PathResolver", input.args,
                                            input.kwargs, Node("Root", "")),
                                   "str")])
    /\ UNCHANGED <<site, input>>

\* the wrappers registered on a page, the innermost first: form as on
\* form1, hidden, and hidden inside form as on form2
DecoChains == {<<"form">>, <<"hidden">>, <<"hidden", "form">>}

\* the parameters of form1 and form2 of TestDecorators, and those of a page
\* whose first parameter is cast
DecoSignatures ==
    {<<Param("a", "pos", "", FALSE, ""), Param("b", "pos", "", FALSE, "")>>,
     <<Param("u", "pos", "Sticker", FALSE, ""),
       Param("a", "pos", "", FALSE, ""), Param("b", "pos", "", FALSE, ""),
       Param("c", "pos", "", FALSE, "")>>,
     <<Param("a", "pos", "int", FALSE, ""),
       Param("b", "pos", "", FALSE, ""), Param("c", "pos", "", FALSE, "")>>}

\* a page with wrappers and post-hooks, and the input a resolver has for it
DecoInit ==
    /\ Constructed
    /\ input \in [fn : {"_zweb_deco"}, deco : DecoChains,
                  sig : DecoSignatures,
                  post : {<<>>, <<"add_prefix">>},
                  args : SeqsUpTo(ArgValues, MaxArgs), kwargs : KwInputs]
    /\ output = NoOutput

\* _dispatch_leaf of the page Root.page with those wrappers, post-hooks and
\* parameters
DispatchDecorated ==
    /\ input.fn = "_zweb_deco"
    /\ ~output.done
    /\ output' = Done(
          [leaf |-> _dispatch_leaf(
                        Decorate(Page(<<>>, input.post, input.sig, "return"),
                                 input.deco),
                        "page", Node("Root", ""),
                        Resolver("PathResolver", input.args, input.kwargs,
                                 Node("Root", "")),
                        "str")])
    /\ UNCHANGED <<site, input>>

\* pages dispatched on their own, plain ones and ones with wrappers
BindSpec ==
    (BindInit \/ DecoInit) /\ [][DispatchLeaf \/ DispatchDecorated]_vars

\* a resource method with pre-hooks and post-hooks, the segments after its
\* name and the form arguments of the request
TransitionInit ==
    /\ Constructed
    /\ input \in [fn : {"resolve"},
                  pre : {<<"check_id">>, <<"check_k", "check_id">>},
                  post : SeqsUpTo({"add_suffix", "add_prefix"}, MaxPostHooks),
                  rest : SeqsUpTo({"10", "topic", "new_topic"}, MaxRestLen),
                  query : Queries]
    /\ output = NoOutput

\* the resource with that method
Gate == Node("Gate", [pre |-> input.pre, post |-> input.post])

\* a PathResolver at that resource, about to read the name of the method
AtGate ==
    Resolver("PathResolver", <<"forum">> \o input.rest, input.query, Gate)

\* BaseResolver.resolve from there: its first pass, and its outcome
ResolveTransition ==
    /\ input.fn = "resolve"
    /\ ~output.done
    /\ \E req \in {NewRequestObject(
                       MakeUri(<<"forum">> \o input.rest, FALSE, input.query),
                       "get")} :
          output' = Done([first |-> ResolveStep(AtGate, req, "str"),
                          whole |-> resolve(AtGate, req, "str")])
    /\ UNCHANGED <<site, input>>

TransitionSpec == TransitionInit /\ [][ResolveTransition]_vars

\* scope.py: a Scope is a string, its label, and an object of its own, which
\* self names here
Scope(label, self) == [label |-> label, self |-> self]

\* the scope shared by every context, and HTTP of http.py
GENERIC == Scope("generic", "GENERIC")

HTTP == Scope("http", "HTTP")

\* the scopes constructed: a second Scope('http') and a scope of another
\* transport besides the two above
Scopes == {GENERIC, HTTP, Scope("http", "other"), Scope("ws", "WS")}

\* a Scope.__eq__ that compares the strings
Scope_eq_str(a, b) == a.label = b.label

\* Scope.__eq__: self is other
Scope_eq(a, b) == a.self = b.self

\* the scope set of a context of the scope current
context_scopes(current) == {GENERIC, current}

\* the intersection of two sets of scopes is not empty; membership in a
\* Python set goes by __hash__ (the id) and __eq__
compatible(nodeScopes, contextScopes) ==
    \E a \in nodeScopes : \E b \in contextScopes : Scope_eq(a, b)

OutOfScopeExc == Exc("OutOfScopeError", NoUri)

\* one step of the resolve loop in a context of the scope current, at the
\* member name of node declared with the scope set scopes: child lookup,
\* scope check, then dispatch by kind
scoped_step(node, name, scopes, current, args, kwargs) ==
    LET fun == resolve_local(node, name)
        res == Resolver("PathResolver", args, kwargs, node)
    IN IF fun = NoMember
       THEN Dispatched("raise", NoneVal, NoNode, <<>>, OutOfScopeExc, <<>>)
       ELSE IF fun.kind = RESOURCE
       THEN Dispatched("resource", NoneVal, Node(fun.target, ""), args,
                       NoExc, <<>>)
       ELSE IF ~compatible(scopes, context_scopes(current))
       THEN Dispatched("raise", NoneVal, NoNode, <<>>, OutOfScopeExc, <<>>)
       ELSE IF fun.kind \in LEAF_METHODS
       THEN _dispatch_leaf(fun, name, node, res, "str")
       ELSE _dispatch_resource(fun, name, node, res, "str")

\* a member of Root, the scopes it is declared with, the scope of the
\* context and the input left after the member's name
ScopeInit ==
    /\ Constructed
    /\ input \in [fn : {"scoped_step"},
                  name : {"about", "forums", "forum", "one", "_hidden"},
                  scopes : SUBSET Scopes,
                  current : Scopes \ {GENERIC},
                  args : SeqsUpTo({"10"}, 1),
                  kwargs : Queries]
    /\ output = NoOutput

ScopedStep ==
    /\ input.fn = "scoped_step"
    /\ ~output.done
    /\ output' = Done(scoped_step(Node("Root", ""), input.name, input.scopes,
                                  input.current, input.args, input.kwargs))
    /\ UNCHANGED <<site, input>>

ScopeSpec == ScopeInit /\ [][ScopedStep]_vars

\* classes given to supersede: Admin is a subclass of Account, Root one of
\* Admin, Guest is a class apart
Classes == {"Account", "Admin", "Root", "Guest"}

\* the direct base of a class, "" for object
BaseOf(cls) ==
    CASE cls = "Admin" -> "Account"
      [] cls = "Root"  -> "Admin"
      [] OTHER         -> ""

RECURSIVE issubclass(_, _)

issubclass(sub, cls) ==
    IF sub = cls THEN TRUE
    ELSE IF BaseOf(sub) = "" THEN FALSE
    ELSE issubclass(BaseOf(sub), cls)

\* the attributes of class Sticker that hold data, by their mangled names:
\* line 546 defines __superseded
StickerAttrs == {"_Sticker__superseded"}

\* what super() of the classmethod finds for a name: the classes after
\* Sticker in the mro of cls are object alone, which has no register
\* (register is a method of the metaclass)
SuperHas(name) == name \in {"__init__", "__repr__", "__eq__", "__hash__"}

\* the record of a sticker class: the implementation recorded for it ("" for
\* none), the exception the last call raised ("" for none), and the calls
\* made so far
Registry(impl, raised, calls) ==
    [impl |-> impl, raised |-> raised, calls |-> calls]

\* Sticker.supersede from line 557 on, oldsup read
supersede_with(reg, oldsup, sub) ==
    IF oldsup # "" /\ ~issubclass(sub, oldsup) /\ issubclass(oldsup, sub)
    THEN Registry(reg.impl, "", Append(reg.calls, sub))
    ELSE IF oldsup # "" /\ ~issubclass(sub, oldsup)
    THEN Registry(reg.impl, "RuntimeError", Append(reg.calls, sub))
    ELSE IF ~SuperHas("register")
    THEN Registry(reg.impl, "AttributeError", Append(reg.calls, sub))
    ELSE Registry(sub, "", Append(reg.calls, sub))

\* Sticker.supersede: line 556 reads cls.__superseeded
supersede(reg, sub) ==
    IF "_Sticker__superseeded" \notin StickerAttrs
    THEN Registry(reg.impl, "AttributeError", Append(reg.calls, sub))
    ELSE supersede_with(reg, reg.impl, sub)

\* a sticker class nothing was recorded for
SupersedeInit ==
    /\ Constructed
    /\ input \in [fn : {"supersede"}, cls : {"User", "Session"}]
    /\ output = Done(Registry("", "", <<>>))

\* cls.supersede(sub)
Supersede ==
    /\ input.fn = "supersede"
    /\ Len(output.val.calls) < MaxSupersedes
    /\ \E sub \in Classes : output' = Done(supersede(output.val, sub))
    /\ UNCHANGED <<site, input>>

SupersedeSpec == SupersedeInit /\ [][Supersede]_vars

\* signature.py, lines 78 and 95: nposargs counts every parameter after self
\* that is not a sticker, whatever its kind
nposargs(sig) == Cardinality({i \in 1..Len(sig) : sig[i].ann # "Sticker"})

\* compile_signature of signature.py: __sig__ has the parameters and the
\* body of the one of core.py and returns the count in place of the tail
\* (lines 134-141)
compile_signature(sig, partial, args, kwargs) ==
    LET bound == CallSig(sig, partial, args, kwargs,
                         BoundAll(sig, args, kwargs))
    IN [error |-> bound.error, args |-> bound.args, kw |-> bound.kw,
        consumed |-> IF bound.error # "" THEN 0
                     ELSE IF \E i \in 1..Len(sig) : sig[i].kind = "varpos"
                     THEN 0
                     ELSE IF partial THEN nposargs(sig)
                     ELSE 0]

\* the parameters of resource methods: those of Root.forum, and ones with a
\* plain default, a keyword-only parameter, none, a sticker, a var-positional
PartialSignatures ==
    {<<Param("id", "pos", "int", TRUE, "None")>>,
     <<Param("a", "pos", "", FALSE, ""), Param("b", "pos", "", TRUE, "d")>>,
     <<Param("id", "pos", "int", FALSE, ""),
       Param("a", "kwonly", "", TRUE, "None")>>,
     <<>>,
     <<Param("user", "pos", "Sticker", FALSE, ""),
       Param("id", "pos", "int", FALSE, "")>>,
     <<Param("one", "pos", "", FALSE, ""),
       Param("star", "varpos", "", FALSE, "")>>}

\* a resource method and the input a resolver has for it
PartialInit ==
    /\ Constructed
    /\ input \in [fn : {"compile_signature"}, sig : PartialSignatures,
                  args : SeqsUpTo(ArgValues, MaxArgs), kwargs : KwInputs]
    /\ output = NoOutput

\* the binder compiled with partial=True called with that input
BindPartial ==
    /\ input.fn = "compile_signature"
    /\ ~output.done
    /\ output' = Done(compile_signature(input.sig, TRUE, input.args,
                                        input.kwargs))
    /\ UNCHANGED <<site, input>>

PartialSpec == PartialInit /\ [][BindPartial]_vars

\* the pre-hooks of a page with the parameters of Forum.topic, registered in
\* that order (allow never answers), and the input a resolver has for it
PreInit ==
    /\ Constructed
    /\ input \in [fn : {"_zweb_pre"},
                  pre : SeqsUpTo({"check_id", "check_k", "allow"}, MaxPreHooks),
                  args : SeqsUpTo({"10", "about"}, 1),
                  kwargs : Queries \cup {{<<"id", "10">>, <<"k", "v">>}}]
    /\ output = NoOutput

\* _dispatch_leaf of that page
DispatchHooked ==
    /\ input.fn = "_zweb_pre"
    /\ ~output.done
    /\ output' = Done(_dispatch_leaf(
                         Page(input.pre, <<>>,
                              <<Param("id", "pos", "int", FALSE, "")>>,
                              "return"),
                         "topic", Node("Forum", "10"),
                         Resolver("PathResolver", input.args, input.kwargs,
                                  Node("Forum", "10")),
                         "str"))
    /\ UNCHANGED <<site, input>>

PreSpec == PreInit /\ [][DispatchHooked]_vars

\* parameters of index pages, all with defaults
IndexSignatures ==
    {<<>>,
     <<Param("a", "pos", "", TRUE, "None")>>,
     <<Param("a", "pos", "int", TRUE, "None")>>,
     <<Param("a", "pos", "", TRUE, "None"), Param("b", "pos", "", TRUE, "d")>>,
     <<Param("b", "kwonly", "", TRUE, "d")>>}

\* a resource with such an index page, and the input a PathResolver has
\* when it comes to the resource
IndexInit ==
    /\ Constructed
    /\ input \in [fn : {"index"}, sig : IndexSignatures,
                  args : SeqsUpTo(ArgValues, 1), kwargs : KwInputs]
    /\ output = NoOutput

\* BaseResolver.resolve from there
ResolveIndex ==
    /\ input.fn = "index"
    /\ ~output.done
    /\ \E req \in {NewRequestObject(MakeUri(input.args, FALSE, input.kwargs),
                                     "get")} :
          output' = Done(resolve(Resolver("PathResolver", input.args,
                                          input.kwargs,
                                          Node("Board", input.sig)),
                                 req, "str"))
    /\ UNCHANGED <<site, input>>

IndexSpec == IndexInit /\ [][ResolveIndex]_vars

\* a page with parameters that have defaults, among them those of
\* Root.forum and no_annotation, and the input a resolver has for it
DefaultInit ==
    /\ Constructed
    /\ input \in [fn : {"defaults"},
                  sig : IndexSignatures \cup PartialSignatures,
                  args : SeqsUpTo(ArgValues, MaxArgs), kwargs : KwInputs]
    /\ output = NoOutput

\* _dispatch_leaf of that page
DispatchDefaults ==
    /\ input.fn = "defaults"
    /\ ~output.done
    /\ output' = Done(_dispatch_leaf(Page(<<>>, <<>>, input.sig, "return"),
                                     "page", Node("Root", ""),
                                     Resolver("PathResolver", input.args,
                                              input.kwargs, Node("Root", "")),
                                     "str"))
    /\ UNCHANGED <<site, input>>

DefaultSpec == DefaultInit /\ [][DispatchDefaults]_vars

\* a resolve under way: the resolver, the resolver the last pass began
\* with, the request, how the last pass ended ("hang": inside a
\* constructor that does not return), the value it returned if it did, and
\* the resolver that was parent in the hand-over it made if it made one
Traversal(res, prev, req, t, val, parent) ==
    [res |-> res, prev |-> prev, req |-> req, t |-> t, val |-> val,
     parent |-> parent]

\* the resolver of the root Tree, constructed for the request
TraverseStart(req) ==
    LET new == NewResolver("PathResolver", req, NoResolver)
    IN Traversal([new.res EXCEPT !.resource = Node("Tree", "")], NoResolver,
                 new.request, "continue", NoneVal, NoResolver)

\* BaseResolver.resolve, lines 88-95: the pass came to step
TraverseAfter(res, req, step) ==
    IF step.t # "handover"
    THEN Traversal(step.res, res, req, step.t, step.val, NoResolver)
    ELSE LET new == NewResolver(step.cls, req, step.res)
         IN IF new.error # NoExc
            THEN Traversal(step.res, res, req, "raise", NoneVal, step.res)
            ELSE IF new.hang
            THEN Traversal(step.res, res, req, "hang", NoneVal, step.res)
            ELSE Traversal([new.res EXCEPT !.resource = step.res.resource],
                           res, new.request, "continue", NoneVal, step.res)

\* a request for a path under Tree
TraverseInit ==
    /\ Constructed
    /\ input \in [fn : {"traverse"},
                  path : SeqsUpTo({"verbs", "any", "forum", "topic", "10"},
                                  MaxTraverseLen),
                  method : Methods]
    /\ output = Done(TraverseStart(
                        NewRequestObject(MakeUri(input.path, FALSE, {}),
                                         input.method)))

\* one pass of the for loop of BaseResolver.resolve, or the code after it
TraversePass ==
    /\ input.fn = "traverse"
    /\ output.val.t = "continue"
    /\ \E step \in {IF HasNext(output.val.res)
                     THEN ResolveStep(output.val.res, output.val.req, "str")
                     ELSE ResolveEnd(output.val.res, "str")} :
          output' = Done(TraverseAfter(output.val.res, output.val.req, step))
    /\ UNCHANGED <<site, input>>

TraverseSpec == TraverseInit /\ [][TraversePass]_vars

\* a path, a number of slashes to put before it and one to put after it
SlashInit ==
    /\ Constructed
    /\ input \in [fn : {"_resolve"},
                  segs : SeqsUpTo(Segments, MaxSlashedPathLen),
                  lead : 0..MaxSlashes, trail : 0..MaxSlashes,
                  query : Queries]
    /\ output = NoOutput

\* the outcome of Site._resolve for a new GET request for uri
Resolved(uri) == _resolve(1, NewRequestObject(uri, "get"), "str")

\* Site._resolve is called for the path as it is written with one slash
\* before each segment, for the path with the slashes around it, and for
\* the path with each one more segment after it
ResolveSlashed ==
    /\ input.fn = "_resolve"
    /\ ~output.done
    /\ output' = Done(
          [plain   |-> Resolved(MakeUri(input.segs, FALSE, input.query)),
           slashed |-> Resolved(SlashedUri(input.segs, input.lead,
                                           input.trail, input.query)),
           longer  |-> [x \in Segments |->
                          Resolved(MakeUri(Append(input.segs, x), FALSE,
                                           input.query))]])
    /\ UNCHANGED <<site, input>>

SlashSpec == SlashInit /\ [][ResolveSlashed]_vars

-----------------------------------------------------------------------------
(* Properties *)

\* the pass of resolve just made ended with the value a handler's body returned
FromBody ==
    /\ phase = "returned"
    /\ result.kind = "value"
    /\ \E i \in 1..Len(passEv) : passEv[i][1] = "body"

\* the post-hooks the pass just made ran, in the order it ran them
PostsRun == SelectSeq(passEv, LAMBDA e : e[1] = "post")

\* C1: when resolution returns what a leaf's body returned, that value has
\* been passed through all the post-hooks registered on the leaf, in the order
\* of registration, each receiving the output of the one before
C1_PostHooksInOrder ==
    FromBody =>
        /\ result.val.post = GetAttr(result.val.self, result.val.h).post
        /\ PostsRun = PostEvents(GetAttr(result.val.self, result.val.h).post)

C1_Witness ==
    /\ FromBody
    /\ result.val.h = "about"
    /\ result.val.post = <<"add_suffix", "add_prefix">>

\* C2: at a PathResolver with next segment N: a child named N is dispatched
\* and default is not used; with no such child and a default handler, default
\* is dispatched and receives N first, once, followed by the remaining
\* segments; with neither, the resolution fails with NotFound
C2_DefaultFallback ==
    (before.kind = "PathResolver" /\ before.args # <<>>) =>
        LET N     == Head(before.args)
            child == resolve_local(before.resource, N)
            dflt  == GetAttr(before.resource, "default")
        IN /\ child # NoMember =>
                /\ \A i \in 1..Len(passEv) : passEv[i][2] # "default"
                /\ FromBody => result.val.h = N
           /\ (child = NoMember /\ dflt # NoMember) =>
                /\ passEv # <<>>
                /\ passEv[1] = <<"bind", "default">>
                /\ phase \in {"returned", "raised"}
                /\ phase = "returned" =>
                      /\ result.val.h = "default"
                      /\ result.val.a = before.args
           /\ (child = NoMember /\ dflt = NoMember) =>
                /\ phase = "raised"
                /\ exc.type = "NotFound"
                /\ passEv = <<>>

C2_Witness ==
    /\ phase = "returned"
    /\ before.resource.cls = "One"
    /\ before.args = <<"about">>
    /\ result.val.h = "default"
    /\ result.val.a = <<"about">>

\* C3: at a PathResolver whose input is exhausted, a resource with an index
\* leaf gives the result of index, and one without (even one with a default
\* handler) gives NotFound; with input left, no child of that name and no
\* default, the resolution gives NotFound
C3_IndexFallback ==
    before.kind = "PathResolver" =>
        IF before.args = <<>>
        THEN IF GetAttr(before.resource, "index").kind \in LEAF_METHODS
             THEN /\ FromBody
                  /\ result.val.h = "index"
                  /\ result.val.self = before.resource
                  /\ passEv = BodyEvents("index")
             ELSE /\ phase = "raised"
                  /\ exc.type = "NotFound"
                  /\ passEv = <<>>
        ELSE (/\ resolve_local(before.resource, Head(before.args)) = NoMember
              /\ GetAttr(before.resource, "default") = NoMember) =>
                 /\ phase = "raised"
                 /\ exc.type = "NotFound"

C3_Witness ==
    /\ before.kind = "PathResolver"
    /\ before.args = <<>>
    /\ before.resource.cls = "One"
    /\ FromBody
    /\ result.val.h = "index"

\* the request that arrived asked for the path of segs, without a query
Asked(segs) == orig.uri = MakeUri(segs, FALSE, {})

\* C4: Root.forum takes exactly the one segment after its name and traversal
\* goes on in the Forum it returns with exactly the segments left: /forum/10
\* gives the index of Forum(10), /forum/10/new_topic its new_topic, and
\* /forum/10/10 NotFound
C4_ResourceTransition ==
    /\ (/\ before.kind = "PathResolver"
        /\ before.resource.cls = "Root"
        /\ Len(before.args) >= 2
        /\ before.args[1] = "forum"
        /\ before.args[2] \in Numerals
        /\ ~Has(before.kwargs, "id")) =>
            /\ phase = "walk"
            /\ resolver.resource = Node("Forum", int(before.args[2]))
            /\ resolver.args = Drop(before.args, 2)
    /\ (phase = "returned" /\ Asked(<<"forum", "10">>)) =>
            /\ FromBody
            /\ result.val.h = "index"
            /\ result.val.self = Node("Forum", "int(10)")
    /\ (phase = "returned" /\ Asked(<<"forum", "10", "new_topic">>)) =>
            /\ FromBody
            /\ result.val.h = "new_topic"
            /\ result.val.self = Node("Forum", "int(10)")
    /\ (phase = "returned" /\ Asked(<<"forum", "10", "10">>)) =>
            /\ result.kind = "response"
            /\ exc.type = "NotFound"

C4_Witness ==
    /\ phase = "returned"
    /\ Asked(<<"forum", "10", "new_topic">>)
    /\ result.val.h = "new_topic"
    /\ result.val.self = Node("Forum", "int(10)")
    /\ before.args = <<"new_topic">>

\* the pre-hooks of fun that answer, called as the pass from res calls them
Answering(fun, self, res) ==
    {i \in 1..Len(fun.pre) :
        prefun(fun.pre[i], self, res.args, res.kwargs) # NoneVal}

\* C5: when a pre-hook of the leaf a pass dispatches returns a value that is
\* not None, the pass binds no arguments and runs no handler body, and its
\* result is that value passed through every post-hook of the leaf in
\* registration order
C5_PreHookShortCircuit ==
    (before # NoResolver /\ HasNext(before)) =>
        LET fun == resolve_local(before.resource, NextName(before, request))
            ans == Answering(fun, before.resource, AfterNext(before))
        IN (fun.kind \in LEAF_METHODS /\ ans # {}) =>
              /\ \A i \in 1..Len(passEv) : passEv[i][1] \notin {"bind", "body"}
              /\ PostsRun = PostEvents(fun.post)
              /\ phase = "returned"
              /\ result.kind = "value"
              /\ \E i \in ans :
                    result.val =
                        [prefun(fun.pre[i], before.resource,
                                AfterNext(before).args, before.kwargs)
                            EXCEPT !.post = fun.post]

C5_Witness ==
    /\ phase = "returned"
    /\ result.val.h = "check_k"
    /\ result.val.post = <<"add_suffix">>
    /\ passEv = << <<"pre", "check_id">>, <<"pre", "check_k">>,
                   <<"post", "add_suffix">> >>

\* the _resolve call in progress has come to its outcome
HasOutcome == (phase = "returned" /\ result.kind = "value") \/ Escaped

\* the outcome of the _resolve call in progress
ActualOutcome ==
    IF phase = "returned" THEN Outcome("return", result.val, NoExc)
    ELSE Outcome("raise", NoneVal, exc)

\* how the body of Root.act behaved in this _resolve call, if it ran
Behaved == IF choice = "" THEN "str" ELSE choice

\* C6: after a path rewrite to T, the _resolve call that follows comes to the
\* outcome that a fresh request for T comes to, positional and keyword
\* arguments both taken from T
C6_RedirectEquivalence ==
    (restarts >= 1 /\ HasOutcome) =>
        ActualOutcome =
            _resolve(1, NewRequestObject(request.uri, request.method), Behaved)

\* C7: dispatch never raises, and what it returns has exactly three elements
C7_AlwaysTriple ==
    /\ phase # "crashed"
    /\ phase = "done" => Len(response) = 3

\* C8: every dispatch comes to an end, however its handlers redirect
C8_RestartsBounded == <>(phase \in {"done", "crashed"})

\* C9: an exception other than a redirect signal that ends resolution gives
\* its own default response when it is a web failure (404, 405, 403, 303 with
\* a Location header) and the 500 response otherwise; once the response is
\* made the dispatch only returns it, with no further resolution
C9_FailureClassification ==
    result.kind = "response" =>
        /\ phase \in {"returned", "done"}
        /\ exc.type \notin InternalRedirects
        /\ Len(result.resp) = 3
        /\ result.resp[1].text =
              CASE exc.type = "NotFound"           -> <<"404 Not Found">>
                [] exc.type = "MethodNotAllowed"   -> <<"405 Method Not Allowed">>
                [] exc.type = "Forbidden"          -> <<"403 Forbidden">>
                [] exc.type = "CompletionRedirect" -> <<"303 See Other">>
                [] OTHER -> <<"500 Internal Server Error">>
        /\ exc.type = "CompletionRedirect" =>
              result.resp[2].text =
                  <<"Content-Type", "text/html", "Location">>
                      \o exc.location.path
        /\ phase = "done" => response = result.resp

C9_Witness ==
    /\ phase = "done"
    /\ exc.type = "CompletionRedirect"
    /\ response[1].text = <<"303 See Other">>
    /\ response[2].text = <<"Content-Type", "text/html", "Location", "/", "forums">>

\* the outcome of resolving the request at the root Resources[j] alone
RootAlone(j) ==
    resolve_root(j, NewResolver(http_resolver_class(Resources[j]),
                                request, NoResolver), Behaved)

\* the outcome is a NotFound raised
FailedNotFound(out) == out.t = "raise" /\ out.exc.type = "NotFound"

\* C10: the roots are tried in list order, a root only after every root before
\* it failed with NotFound; the outcome is that of the first root that does
\* not fail so, and NotFound when every root does
C10_RootOrdering ==
    /\ phase \in {"walk", "handover", "raised"} =>
          /\ rootIdx \in 1..Len(Resources)
          /\ attempts = [j \in 1..(rootIdx - 1) |-> "NotFound"]
    /\ HasOutcome =>
          /\ \A j \in 1..(rootIdx - 1) : FailedNotFound(RootAlone(j))
          /\ IF phase = "failed"
             THEN /\ rootIdx = Len(Resources) + 1
                  /\ FailedNotFound(ActualOutcome)
             ELSE /\ rootIdx \in 1..Len(Resources)
                  /\ ActualOutcome = RootAlone(rootIdx)
                  /\ ~FailedNotFound(ActualOutcome)

C10_Witness ==
    /\ phase = "returned"
    /\ rootIdx = 1
    /\ result.val.self.cls = "StaticResource"
    /\ RootAlone(2).t = "return"

\* what dispatch is to make of the value v that is a str, bytes, or a sequence
\* of two or three items
Normalized(v) ==
    CASE v.ty = "str"   -> <<Status200, NoHeaders, Item("utf-8", <<>>, v)>>
      [] v.ty = "bytes" -> <<Status200, NoHeaders, Item("bytes", <<>>, v)>>
      [] v.ty = "seq2"  -> <<Item("element", <<"[0]">>, v), NoHeaders,
                             Item("element", <<"[1]">>, v)>>
      [] v.ty = "seq3"  -> <<Item("element", <<"[0]">>, v),
                             Item("element", <<"[1]">>, v),
                             Item("element", <<"[2]">>, v)>>

\* the results the rules of normalisation speak of
Plain == {"str", "bytes", "seq2", "seq3"}

\* the normalisation rules for the results they name: str, bytes, two or
\* three items, and a result with http_response, rendered first
NormalizationRules ==
    (phase = "done" /\ result.kind = "value") =>
        /\ result.val.ty \in Plain => response = Normalized(result.val)
        /\ result.val.ty \in HasHttpResponse =>
              response = Normalized(http_response(result.val))

\* C11: a str gives (200, no headers, its UTF-8 encoding), bytes give (200,
\* no headers, the bytes), two items (s, b) give (s, no headers, b), three
\* items are returned as they are, a result with http_response is rendered
\* first and then normalised alike; and what dispatch returns always has
\* exactly three items
C11_ResultNormalization ==
    /\ NormalizationRules
    /\ (phase = "done" /\ result.kind = "value") => Len(response) = 3

\* the name is an identifier that does not begin with an underscore and the
\* resource has a member of that name that carries the marker
Visible(node, name) ==
    /\ isidentifier(name)
    /\ ~startswith_underscore(name)
    /\ GetAttr(node, name) # NoMember
    /\ GetAttr(node, name).kind # ""

\* C12: resolve_local(name) returns the member exactly when the name is an
\* identifier, does not begin with an underscore and the member is tagged;
\* for any other name it raises ChildNotFound and never returns the member
C12_LocalLookup ==
    (input.fn = "resolve_local" /\ output.done) =>
        IF Visible(input.node, input.name)
        THEN output.val = GetAttr(input.node, input.name)
        ELSE output.val = NoMember

\* the tagged page _hidden of MyRes was asked for and ChildNotFound was raised
C12_Witness ==
    /\ input.fn = "resolve_local"
    /\ output.done
    /\ input.name = "_hidden"
    /\ GetAttr(input.node, input.name).kind = LEAF_HTTP_METHOD
    /\ output.val = NoMember

\* the path asked for ends with the name of a leaf that takes no parameters,
\* and the leaf's body returned
ParameterlessLeaf ==
    /\ input.segs # <<>>
    /\ output.val.plain.t = "return"
    /\ LET leaf == GetAttr(output.val.plain.val.self,
                           input.segs[Len(input.segs)])
       IN /\ leaf.kind \in LEAF_METHODS
          /\ leaf.sig = <<>>
          /\ leaf.body = output.val.plain.val.h

\* slashes after the path, and slashes before it that urlparse leaves to the
\* path, do not change the outcome
SlashesStripped ==
    (input.fn = "_resolve" /\ output.done
        /\ (input.lead # 2 \/ input.segs = <<>>)) =>
        output.val.slashed = output.val.plain

\* one more segment after a leaf without parameters gives NotFound
LongerNotFound ==
    (input.fn = "_resolve" /\ output.done /\ ParameterlessLeaf) =>
        \A x \in Segments : FailedNotFound(output.val.longer[x])

\* C13: slashes before and after the path do not affect resolution: the path
\* with any number of them added comes to the same result or the same
\* failure; and one more segment after a leaf without parameters gives
\* NotFound
C13_SlashInsensitive ==
    (input.fn = "_resolve" /\ output.done) =>
        /\ output.val.slashed = output.val.plain
        /\ ParameterlessLeaf =>
              \A x \in Segments : FailedNotFound(output.val.longer[x])

\* C14: a resource with the method resolver is addressed by one name, the
\* request method in upper case ('get' finds GET), and never by a path
\* segment; with no handler of that name the resolution fails with
\* MethodNotAllowed, and neither default nor index is tried
C14_VerbDispatch ==
    before.kind = "MethodResolver" =>
        LET name    == upper(request.method)
            handler == resolve_local(before.resource, name)
        IN /\ \A i \in 1..Len(passEv) : passEv[i][2] = name
           /\ handler # NoMember =>
                /\ passEv # <<>>
                /\ passEv[1] = <<"bind", name>>
                /\ FromBody => result.val.a = before.args
           /\ handler = NoMember =>
                /\ phase = "raised"
                /\ exc.type = "MethodNotAllowed"
                /\ passEv = <<>>

\* FIX /hello/about: Hello has pages about, index and default and no FIX
C14_Witness ==
    /\ before.kind = "MethodResolver"
    /\ request.method = "FIX"
    /\ before.args = <<"about">>
    /\ GetAttr(before.resource, "about") # NoMember
    /\ GetAttr(before.resource, "index") # NoMember
    /\ GetAttr(before.resource, "default") # NoMember
    /\ exc.type = "MethodNotAllowed"

\* a leaf has been dispatched on its own
LeafDispatched == input.fn = "_dispatch_leaf" /\ output.done

\* a leaf with wrappers has been dispatched on its own
DecoratedDispatched == input.fn = "_zweb_deco" /\ output.done

\* the body of the handler ran in that dispatch
BodyRan ==
    \E i \in 1..Len(output.val.leaf.ev) : output.val.leaf.ev[i][1] = "body"

\* the dispatch failed with NotFound and the body of the handler did not run
BindFailed ==
    /\ FailedNotFound(output.val.leaf)
    /\ ~BodyRan

\* the parameters of sig of the kind kind
OfKind(sig, kind) == {i \in 1..Len(sig) : sig[i].kind = kind}

\* C15: for a leaf without a var-positional parameter the binding succeeds
\* only if there are no more positional inputs than declared positional
\* parameters; positional input left over makes the bind fail, and the
\* request comes to NotFound without the body of the handler running
C15_FullConsumption ==
    (LeafDispatched /\ OfKind(input.sig, "varpos") = {}) =>
        /\ BodyRan =>
              Len(input.args) <= Cardinality(OfKind(input.sig, "pos"))
        /\ Len(input.args) > PosCount(input.sig) => BindFailed

\* a page with one parameter and two segments, as in testDefaultMany
C15_Witness ==
    /\ LeafDispatched
    /\ input.sig = <<Param("data", "pos", "", FALSE, "")>>
    /\ Len(input.args) = 2
    /\ BindFailed

\* the place of the parameter sig[i] among the positional parameters
Place(sig, i) == Cardinality({j \in 1..i : sig[j].kind = "pos"})

\* the value v as the annotation of the parameter p makes it
Annotated(p, v) == IF p.ann = "int" THEN int(v) ELSE v

\* C17: a parameter annotated with a Sticker never takes its value from the
\* request: it takes no positional slot (the positional inputs go to the
\* other parameters in order), a keyword of its name does not set it, and
\* the handler gets the value the sticker's create made from the resolver
C17_StickerFromFactory ==
    (LeafDispatched /\ BodyRan) =>
        \A i \in OfKind(input.sig, "pos") :
            IF input.sig[i].ann = "Sticker"
            THEN output.val.leaf.val.a[Place(input.sig, i)]
                    = create(input.kwargs)
            ELSE PosRank(input.sig, i) <= Len(input.args) =>
                    output.val.leaf.val.a[Place(input.sig, i)]
                        = Annotated(input.sig[i],
                                    input.args[PosRank(input.sig, i)])

\* friend(self, user: User, friend: int) with the segment 10 and a form
\* argument named user
C17_Witness ==
    /\ LeafDispatched
    /\ BodyRan
    /\ Len(input.sig) = 2
    /\ input.sig[1].ann = "Sticker"
    /\ input.sig[2].name = "friend"
    /\ input.args = <<"10">>
    /\ Has(input.kwargs, "user")
    /\ output.val.leaf.val.a = <<create(input.kwargs), int("10")>>

\* the names of the parameters of sig of the kinds kinds
NamesOf(sig, kinds) ==
    {sig[i].name : i \in {j \in 1..Len(sig) : sig[j].kind \in kinds}}

\* what the binder made of the input for the var-positional and var-keyword
\* parameters, where declared are the names of the declared parameters
VarArgs(declared) ==
    /\ OfKind(input.sig, "varpos") # {} =>
          Drop(output.val.sig.args, Cardinality(OfKind(input.sig, "pos")))
              = Drop(input.args, PosCount(input.sig))
    /\ OfKind(input.sig, "varkw") # {} =>
          {pr \in output.val.sig.kw : pr[1] \notin NamesOf(input.sig, {"kwonly"})}
              = {pr \in input.kwargs : pr[1] \notin declared}
    /\ \A i \in 1..Len(input.sig) :
          (/\ IsInput(input.sig[i])
           /\ Has(input.kwargs, input.sig[i].name)) =>
              LET v == Annotated(input.sig[i],
                                 Get(input.kwargs, input.sig[i].name))
              IN IF input.sig[i].kind = "kwonly"
                 THEN <<input.sig[i].name, v>> \in output.val.sig.kw
                 ELSE output.val.sig.args[Place(input.sig, i)] = v

\* the binder does so where no keyword names a sticker parameter
VarArgsBesidesStickers ==
    (LeafDispatched /\ output.val.sig.error = "") =>
        VarArgs(Named(input.sig))

\* C18: a var-positional parameter receives, in order, the positional inputs
\* left after the declared positional parameters are filled; a var-keyword
\* parameter receives exactly the keyword inputs that name no declared
\* parameter; keywords that name a declared parameter are bound to it and
\* are not in the var-keyword mapping
C18_VarArgs ==
    (LeafDispatched /\ output.val.sig.error = "") =>
        VarArgs(NamesOf(input.sig, {"pos", "kwonly"}))

\* the calls of wrappers in that dispatch, in the order they were made
WrapperCalls == SelectSeq(output.val.leaf.ev, LAMBDA e : e[1] = "deco")

\* the handler's own callee was not called
NoCallee ==
    \A i \in 1..Len(output.val.leaf.ev) :
        output.val.leaf.ev[i][1] \notin {"callee", "bind", "body"}

\* the handler's own callee was called with args and kw: it bound them
\* through the signature of the handler and the body ran with what came of it
CalleeBinds(args, kw) ==
    /\ <<"callee", "page", args, kw>> \in
          {output.val.leaf.ev[i] : i \in 1..Len(output.val.leaf.ev)}
    /\ IF _compile_signature(input.sig, FALSE, args, kw).error # ""
       THEN BindFailed
       ELSE BodyRan =>
              /\ output.val.leaf.val.a
                    = _compile_signature(input.sig, FALSE, args, kw).args
              /\ output.val.leaf.val.k
                    = _compile_signature(input.sig, FALSE, args, kw).kw

\* the j-th wrapper called did w: with an error or a value of its own it was
\* the last thing to run before the post-hooks; a continuation called with
\* X called the wrapper registered before it with X, or the handler's callee
WrapperDid(j, w) ==
    IF w.error
    THEN /\ j = Len(WrapperCalls)
         /\ NoCallee
         /\ output.val.leaf.t = "raise"
    ELSE IF w.skip
    THEN /\ j = Len(WrapperCalls)
         /\ NoCallee
         /\ output.val.leaf.t = "return"
         /\ output.val.leaf.val = RunPost(input.post, w.val)
         /\ SelectSeq(output.val.leaf.ev, LAMBDA e : e[1] = "post")
               = PostEvents(input.post)
    ELSE IF j < Len(input.deco)
    THEN /\ j < Len(WrapperCalls)
         /\ WrapperCalls[j + 1] =
               <<"deco", input.deco[Len(input.deco) - j], w.args, w.kw>>
    ELSE /\ j = Len(WrapperCalls)
         /\ CalleeBinds(w.args, w.kw)

\* C19: the wrapper registered last is called first, with the raw arguments
\* and a continuation; its continuation called with X calls the wrapper
\* registered before it with X, and the continuation of the first one binds
\* its arguments through the handler's signature and runs the body; when a
\* wrapper returns without calling its continuation nothing inside it runs
\* and its value, passed through the post-hooks, is the result
C19_DecoratorChain ==
    DecoratedDispatched =>
        /\ output.val.leaf.ev[1] =
              <<"deco", input.deco[Len(input.deco)], input.args, input.kwargs>>
        /\ \A j \in 1..Len(WrapperCalls) :
              WrapperDid(j, parser(WrapperCalls[j][2], Node("Root", ""),
                                   [kwargs |-> input.kwargs],
                                   WrapperCalls[j][3], WrapperCalls[j][4]))

\* form2: form called hidden, hidden called the handler, the body ran and
\* add_prefix was applied
C19_Witness ==
    /\ DecoratedDispatched
    /\ input.deco = <<"hidden", "form">>
    /\ input.post = <<"add_prefix">>
    /\ Len(input.sig) = 4
    /\ Len(WrapperCalls) = 2
    /\ BodyRan
    /\ output.val.leaf.val.a = <<create(input.kwargs), "1", "2", "69">>
    /\ output.val.leaf.val.post = <<"add_prefix">>

\* the positional input args fills the parameter sig[i]
Filled(sig, i, args) ==
    sig[i].kind = "pos" /\ PosRank(sig, i) <= Len(args)

\* a value given for a parameter annotated int is no numeral
FailedCast(sig, args, kw) ==
    \E i \in 1..Len(sig) :
        /\ IsInput(sig[i])
        /\ sig[i].ann = "int"
        /\ \/ Filled(sig, i, args) /\ args[PosRank(sig, i)] \notin Numerals
           \/ /\ ~Filled(sig, i, args)
              /\ Has(kw, sig[i].name)
              /\ Get(kw, sig[i].name) \notin Numerals

\* a parameter without a default is given neither positionally nor by keyword
MissingRequired(sig, args, kw) ==
    \E i \in 1..Len(sig) :
        /\ IsInput(sig[i])
        /\ ~sig[i].hasdef
        /\ ~Filled(sig, i, args)
        /\ ~Has(kw, sig[i].name)

\* a parameter is given both positionally and by keyword
GivenTwice(sig, args, kw) ==
    \E i \in 1..Len(sig) :
        /\ IsInput(sig[i])
        /\ Filled(sig, i, args)
        /\ Has(kw, sig[i].name)

\* args and kw do not fit the signature, or the binder raised for them
Mismatch(sig, args, kw) ==
    \/ FailedCast(sig, args, kw)
    \/ MissingRequired(sig, args, kw)
    \/ GivenTwice(sig, args, kw)
    \/ _compile_signature(sig, FALSE, args, kw).error # ""

\* C16: every signature mismatch in binding (a value that cannot be cast,
\* given positionally or by keyword, a required parameter that is missing, a
\* parameter given both positionally and by keyword) comes out as NotFound,
\* never as another exception, and the body of the handler does not run;
\* for a plain handler and for one called through the continuation of a
\* wrapper alike
C16_MismatchIsNotFound ==
    /\ (LeafDispatched
           /\ Mismatch(input.sig, input.args, input.kwargs)) => BindFailed
    /\ DecoratedDispatched =>
          \A i \in 1..Len(output.val.leaf.ev) :
              (/\ output.val.leaf.ev[i][1] = "callee"
               /\ Mismatch(input.sig, output.val.leaf.ev[i][3],
                           output.val.leaf.ev[i][4])) => BindFailed

\* hidden passed the segment about on to a handler whose first parameter is
\* an int
C16_Witness ==
    /\ DecoratedDispatched
    /\ input.deco = <<"hidden">>
    /\ input.args = <<"about", "10">>
    /\ \E i \in 1..Len(output.val.leaf.ev) :
          /\ output.val.leaf.ev[i][1] = "callee"
          /\ FailedCast(input.sig, output.val.leaf.ev[i][3],
                        output.val.leaf.ev[i][4])
    /\ BindFailed

\* what the pre-hooks of the resource method come to for that request
GateAnswer == RunPre(input.pre, Gate, input.rest, input.query)

NamesHandler ==
    /\ resolve_local(Node("Root", ""), input.name) # NoMember
    /\ resolve_local(Node("Root", ""), input.name).kind # RESOURCE

\* some scope the member is declared with is the very object that is the
\* generic scope or the scope of the context
SharesScope == \E s \in input.scopes : s \in {GENERIC, input.current}

RECURSIVE Recorded(_)

\* the implementation the claim has recorded after the calls: the first
\* class, then each later class that is a subclass of the one recorded
Recorded(calls) ==
    IF calls = <<>> THEN ""
    ELSE LET earlier == Recorded(SubSeq(calls, 1, Len(calls) - 1))
             sub == calls[Len(calls)]
         IN IF earlier = "" \/ issubclass(sub, earlier) THEN sub ELSE earlier

\* the last call was ambiguous: its class is neither a subclass nor a
\* superclass of the implementation recorded earlier it
Ambiguous(calls) ==
    LET earlier == Recorded(SubSeq(calls, 1, Len(calls) - 1))
        sub == calls[Len(calls)]
    IN earlier # "" /\ ~issubclass(sub, earlier) /\ ~issubclass(earlier, sub)

\* C22: after any sequence of supersede calls the recorded implementation
\* is the first class given, replaced by each later subclass of it, kept on
\* a superclass or an unrelated class; a call raises exactly when its class
\* is unrelated to the recorded implementation
C22_Supersede ==
    (input.fn = "supersede" /\ output.val.calls # <<>>) =>
        /\ output.val.impl = Recorded(output.val.calls)
        /\ (output.val.raised # "") = Ambiguous(output.val.calls)

\* the positional input items the call bound to parameters of the handler
BoundItems ==
    {n \in 1..Len(input.args) :
        \E i \in 1..Len(input.sig) :
            /\ input.sig[i].kind = "pos"
            /\ input.sig[i].ann # "Sticker"
            /\ PosRank(input.sig, i) = n}

\* C23: a partial binder with no var-positional parameter reports as
\* consumed the number of positional input items it bound, whatever the
\* length of the input (keyword-only parameters and parameters left to their
\* defaults or to keyword input are not counted), so that the input less
\* the consumed prefix is what the binder did not bind
C23_ConsumedIsBound ==
    (/\ input.fn = "compile_signature"
     /\ output.done
     /\ output.val.error = ""
     /\ \A i \in 1..Len(input.sig) : input.sig[i].kind # "varpos") =>
        /\ output.val.consumed = Cardinality(BoundItems)
        /\ Drop(input.args, output.val.consumed) =
              Drop(input.args, Cardinality(BoundItems))

\* the i-th pre-hook registered answers the raw input of the request
Answers(i) ==
    prefun(input.pre[i], Node("Forum", "10"), input.args, input.kwargs)
        # NoneVal

\* the number of pre-hooks the dispatch ran
PreRan == Len(SelectSeq(output.val.ev, LAMBDA e : e[1] = "pre"))

\* C24: the pre-hooks of a handler run in registration order before the
\* binder, on the raw input of the request; the i-th runs exactly when none
\* before it answered, and when one answers the handler is neither bound nor
\* called and the answer is the result
C24_PreHooksInOrder ==
    (input.fn = "_zweb_pre" /\ output.done) =>
        /\ \A i \in 1..PreRan : output.val.ev[i] = <<"pre", input.pre[i]>>
        /\ \A i \in 1..Len(input.pre) :
              (i <= PreRan) <=> (\A j \in 1..(i - 1) : ~Answers(j))
        /\ \A i \in 1..Len(input.pre) :
              (Answers(i) /\ i = PreRan) =>
                  /\ Len(output.val.ev) = PreRan
                  /\ output.val.t = "return"
                  /\ output.val.val.h = input.pre[i]

\* the second of three pre-hooks answered input the binder would have
\* refused, and the third did not run
C24_Witness ==
    /\ input.fn = "_zweb_pre"
    /\ output.done
    /\ input.pre = <<"allow", "check_k", "check_id">>
    /\ input.args = <<"about">>
    /\ input.kwargs = {<<"id", "10">>, <<"k", "v">>}
    /\ output.val.ev = << <<"pre", "allow">>, <<"pre", "check_k">> >>
    /\ output.val.val.h = "check_k"

\* the declared defaults of the parameters of the kind given
DefaultsOf(sig, kind) ==
    LET declared == SelectSeq(sig, LAMBDA p : p.kind = kind)
    IN [i \in 1..Len(declared) |-> declared[i].def]

\* C25: when the path input is exhausted the index page is dispatched with
\* no argument from the request: each of its parameters has its declared
\* default whatever form arguments the request carries
C25_IndexNoArguments ==
    (input.fn = "index" /\ output.done /\ input.args = <<>>) =>
        /\ output.val.t = "return"
        /\ output.val.val.h = "index"
        /\ output.val.val.a = DefaultsOf(input.sig, "pos")
        /\ \A pr \in output.val.val.k :
              \E i \in 1..Len(input.sig) :
                  pr = <<input.sig[i].name, input.sig[i].def>>

\* the parameters of the page that the input supplies neither positionally
\* nor by keyword
NotSupplied ==
    {i \in 1..Len(input.sig) :
        /\ IsInput(input.sig[i])
        /\ ~Filled(input.sig, i, input.args)
        /\ ~Has(input.kwargs, input.sig[i].name)}

\* C26: a parameter that neither the positional nor the keyword input
\* supplies takes its declared default as it stands, the annotation not
\* applied to it; when it has no default the binding fails and the page is
\* NotFound
C26_Defaults ==
    (input.fn = "defaults" /\ output.done) =>
        \A i \in NotSupplied :
            /\ ~input.sig[i].hasdef =>
                  /\ output.val.t = "raise"
                  /\ output.val.exc = NotFoundExc
            /\ (input.sig[i].hasdef /\ output.val.t = "return") =>
                  IF input.sig[i].kind = "pos"
                  THEN output.val.val.a[Place(input.sig, i)] = input.sig[i].def
                  ELSE <<input.sig[i].name, input.sig[i].def>>
                          \in output.val.val.k

\* the page with id:int = None got no input and was called with None
C26_Witness ==
    /\ input.fn = "defaults"
    /\ output.done
    /\ input.sig = <<Param("id", "pos", "int", TRUE, "None")>>
    /\ input.args = <<>>
    /\ output.val.t = "return"
    /\ output.val.val.a = <<"None">>

\* the dispatch ended with the response for an exception that is no web
\* exception
UnknownFailure ==
    /\ phase = "done"
    /\ result.kind = "response"
    /\ exc.type \notin WebExceptions

\* C27: the response for an exception that is no web exception is the same
\* triple whatever the exception and whatever the request, so that any two
\* such responses are identical and nothing of the exception is in them
C27_UnknownExceptionHidden ==
    UnknownFailure =>
        /\ response = InternalError_default_response
        /\ \A i \in 1..Len(response) :
              \A j \in 1..Len(response[i].text) :
                  response[i].text[j] # exc.type

\* a ValueError raised by the body of a handler was answered with the 500
\* page
C27_Witness ==
    /\ UnknownFailure
    /\ exc.type = "ValueError"
    /\ response = InternalError_default_response

\* s is what is left of t after some of its first elements
IsSuffix(s, t) == Len(s) <= Len(t) /\ s = Drop(t, Len(t) - Len(s))

\* C28: in a resolve the input the resolver has left is always a suffix of
\* the segments of the request, each pass that does not end the resolution
\* leaves less of it than it found, and no pass fails to come back, so that
\* the resolve ends; also through a default that is a resource method
\* without parameters and through a verb member that is a plain resource
C28_TraversalProgress ==
    input.fn = "traverse" =>
        /\ output.val.t # "hang"
        /\ IsSuffix(output.val.res.args, input.path)
        /\ (output.val.t = "continue" /\ output.val.prev # NoResolver) =>
              Len(output.val.res.args) < Len(output.val.prev.args)

\* an attempt at the root Resources[rootIdx] has its resolver and has not
\* begun its first pass
AttemptStart ==
    /\ phase = "walk"
    /\ before = NoResolver
    /\ resolver.resource = Resources[rootIdx]

\* C29: every attempt at a root starts with all the segments of the path of
\* the request as positional input and with the form arguments of the uri of
\* the request as keyword input, whatever earlier attempts consumed or put
\* back, after a failed root and after a redirect alike
C29_AttemptIsolation ==
    AttemptStart =>
        /\ resolver.args = get_path(urlparse(request.uri).path)
        /\ resolver.kwargs = parse_qsl(urlparse(request.uri).query)

\* C30: a hand-over to a resolver of another class comes to an end, under a
\* verb resolver as under a path resolver, and the new resolver starts with
\* the positional input its parent had left; a verb resolver gives the
\* segments its parent had left to the verb handler as positional arguments
C30_HandoverKeepsInput ==
    input.fn = "traverse" =>
        /\ output.val.parent # NoResolver =>
              /\ output.val.t = "continue"
              /\ output.val.res.kind # output.val.parent.kind
              /\ output.val.res.args = output.val.parent.args
        /\ (/\ output.val.t = "return"
            /\ output.val.prev.kind = "MethodResolver"
            /\ output.val.prev.args # <<>>) =>
              output.val.val.a = output.val.prev.args

====
